---------------------------- MODULE Spec2Model ----------------------------
(***************************************************************************)
(* AutoTester: the macro replay engine (runMacro of the runner) with the   *)
(* repository operations it calls and the CLI entry point that starts it.  *)
(*                                                                         *)
(* The browser driver (Playwright) is the environment: each call the       *)
(* runner awaits either returns or throws, and what it returns is drawn    *)
(* from a small set (the PageResponse of a step).  The persistence layer   *)
(* is taken to be reliable: addStepResult, addArtifact, createRun and      *)
(* finishRun never throw.                                                  *)
(***************************************************************************)
EXTENDS Naturals, Integers, Sequences, FiniteSets, TLC

(***************************************************************************)
(* Bounds of the model.                                                    *)
(***************************************************************************)
\* longest macro built from the controller templates
MaxSteps == 3
\* longest macro built from the full action vocabulary
MaxExecSteps == 1

\* JavaScript null / undefined (a string no program value equals)
NULL == "<null>"

(***************************************************************************)
(* JavaScript string helpers, computed character by character.             *)
(***************************************************************************)
StartsWith(s, p) == Len(s) >= Len(p) /\ SubSeq(s, 1, Len(p)) = p

Slice(s, n) == IF n >= Len(s) THEN "" ELSE SubSeq(s, n + 1, Len(s))

Includes(s, sub) ==
    \/ Len(sub) = 0
    \/ \E k \in 1..Len(s) :
          k + Len(sub) - 1 <= Len(s) /\ SubSeq(s, k, k + Len(sub) - 1) = sub

\* String.prototype.indexOf for a one-character needle: 0-based, -1 if absent
IndexOf(s, c) ==
    IF \E k \in 1..Len(s) : SubSeq(s, k, k) = c
    THEN (CHOOSE k \in 1..Len(s) :
             /\ SubSeq(s, k, k) = c
             /\ \A m \in 1..(k - 1) : SubSeq(s, m, m) # c) - 1
    ELSE -1

RECURSIVE TrimLeft(_)
TrimLeft(s) ==
    IF Len(s) > 0 /\ SubSeq(s, 1, 1) = " " THEN TrimLeft(Slice(s, 1)) ELSE s

RECURSIVE TrimRight(_)
TrimRight(s) ==
    IF Len(s) > 0 /\ SubSeq(s, Len(s), Len(s)) = " "
    THEN TrimRight(SubSeq(s, 1, Len(s) - 1))
    ELSE s

Trim(s) == TrimRight(TrimLeft(s))

Digits == {"0", "1", "2", "3", "4", "5", "6", "7", "8", "9"}

\* Number.isFinite(Number(s)) for decimal literals: Number trims, reads the
\* empty string as 0, and gives NaN for anything that is not a numeral.
NumberIsFinite(s) ==
    LET t == Trim(s)
        body == IF Len(t) > 0 /\ SubSeq(t, 1, 1) \in {"-", "+"} THEN Slice(t, 1) ELSE t
        dots == {k \in 1..Len(body) : SubSeq(body, k, k) = "."}
    IN  \/ t = ""
        \/ /\ \A k \in 1..Len(body) : SubSeq(body, k, k) \in Digits \cup {"."}
           /\ Cardinality(dots) <= 1
           /\ \E k \in 1..Len(body) : SubSeq(body, k, k) \in Digits

\* value.split(","): the pieces between commas, in order
RECURSIVE SplitComma(_)
SplitComma(s) ==
    LET k == IndexOf(s, ",")
    IN  IF k < 0 THEN <<s>>
        ELSE <<SubSeq(s, 1, k)>> \o SplitComma(Slice(s, k + 1))


(***************************************************************************)
(* URLs.  A base URL is an origin, optionally followed by a path.          *)
(***************************************************************************)
isAbsoluteUrl(value) == StartsWith(value, "http://") \/ StartsWith(value, "https://")

\* the origin of an absolute URL: scheme, "//" and host
Origin(url) ==
    LET n == IF StartsWith(url, "https://") THEN 8 ELSE 7
        rest == Slice(url, n)
        k == IndexOf(rest, "/")
    IN  IF k < 0 THEN url ELSE SubSeq(url, 1, n + k)

\* new URL(value, baseUrl).toString() for a value that is a path ("/x")
UrlJoin(value, baseUrl) ==
    IF StartsWith(value, "/") THEN Origin(baseUrl) \o value
    ELSE Origin(baseUrl) \o "/" \o value

\* new URL(url).pathname: what follows the origin, up to "?"
Pathname(url) ==
    LET rest == Slice(url, Len(Origin(url)))
        q == IndexOf(rest, "?")
        p == IF q < 0 THEN rest ELSE SubSeq(rest, 1, q)
    IN  IF p = "" THEN "/" ELSE p

resolveTargetUrl(value, baseUrl) ==
    IF isAbsoluteUrl(value) THEN value
    ELSE IF baseUrl # NULL /\ Len(Trim(baseUrl)) > 0 THEN UrlJoin(value, baseUrl)
    ELSE value

\* buildUrlMatcher gives a string (matched against the whole URL) when the
\* resolved value is absolute, else a RegExp of the escaped text (found
\* anywhere in the URL).  UrlMatches is page.waitForURL's test of pageUrl.
buildUrlMatcher(value, baseUrl) ==
    LET resolved == resolveTargetUrl(value, baseUrl)
    IN  IF isAbsoluteUrl(resolved)
        THEN [kind |-> "string", text |-> resolved]
        ELSE [kind |-> "regexp", text |-> resolved]

UrlMatches(matcher, pageUrl) ==
    IF matcher.kind = "string" THEN pageUrl = matcher.text
    ELSE Includes(pageUrl, matcher.text)

(***************************************************************************)
(* Value parsers of the runner.                                            *)
(***************************************************************************)
NoCoord == [ok |-> FALSE]

parseCoordPair(value) ==
    LET parts == SplitComma(value)
    IN  IF Len(parts) # 2 THEN NoCoord
        ELSE IF ~NumberIsFinite(parts[1]) \/ ~NumberIsFinite(parts[2]) THEN NoCoord
        ELSE [ok |-> TRUE, x |-> Trim(parts[1]), y |-> Trim(parts[2])]

NoExpectation == [ok |-> FALSE]

parseCssExpectation(value) ==
    LET idx == IndexOf(value, ":")
    IN  IF idx <= 0 THEN NoExpectation
        ELSE LET prop == Trim(SubSeq(value, 1, idx))
                 expected == Trim(Slice(value, idx + 1))
             IN  IF prop = "" \/ expected = "" THEN NoExpectation
                 ELSE [ok |-> TRUE, prop |-> prop, expected |-> expected]

(***************************************************************************)
(* Locator resolution.  counts[k] is what count() gives for the k-th       *)
(* candidate: "zero", "some" (one or more) or "error" (count() throws).    *)
(***************************************************************************)
LocatorTypes == {"data", "role", "css", "xpath"}
CountResults == {"zero", "some", "error"}

\* the recorder's buildLocators: the candidates of an element, pushed in the
\* order data, role, css, xpath; an element has a data and a role candidate
\* only with the attributes for them, and always a css and an xpath one
RecordedElements == [data : BOOLEAN, role : BOOLEAN]

buildLocators(el) ==
    (IF el.data THEN <<"data">> ELSE <<>>)
       \o (IF el.role THEN <<"role">> ELSE <<>>)
       \o <<"css", "xpath">>

RECURSIVE findLocatorFrom(_, _, _)
findLocatorFrom(counts, locators, k) ==
    IF k > Len(locators) THEN 0
    ELSE IF counts[k] = "some" THEN k
    ELSE findLocatorFrom(counts, locators, k + 1)

\* a faulty variant of findLocator: the last candidate with a match is used
findLocatorLast(counts, locators) ==
    IF \E k \in 1..Len(locators) : counts[k] = "some"
    THEN CHOOSE k \in 1..Len(locators) :
            /\ counts[k] = "some"
            /\ \A m \in (k + 1)..Len(locators) : counts[m] # "some"
    ELSE 0

\* a faulty variant of findLocator: only the first candidate is tried
findLocatorFirstOnly(counts, locators) ==
    IF Len(locators) > 0 /\ counts[1] = "some" THEN 1 ELSE 0

\* the index of the candidate used, 0 for null
findLocator(counts, locators) == findLocatorFrom(counts, locators, 1)

(***************************************************************************)
(* Messages.                                                               *)
(***************************************************************************)
StopOnFailMessage == "not executed (stop-on-fail)"
SecretMessage == "secret value skipped"
SecretSentinel == "__SECRET__"
\* messages of errors thrown by the browser driver
TimeoutMessage == "Timeout exceeded"
ActionErrorMessage == "Element is not attached to the DOM"
NavigationErrorMessage == "net::ERR_CONNECTION_REFUSED"

Pass(used) == [status |-> "PASS", errorMessage |-> NULL, usedLocator |-> used]
Fail(message) == [status |-> "FAIL", errorMessage |-> message, usedLocator |-> NULL]
Skip(message, used) == [status |-> "SKIPPED", errorMessage |-> message, usedLocator |-> used]

(***************************************************************************)
(* The step executor: the body of the try block of runMacro's loop, as a   *)
(* function of the step, the effective base URL and the page's response r: *)
(*   r.counts      count() of each locator candidate                       *)
(*   r.ready       ensureVisibleEnabled: "ok", "timeout" (waitFor throws)  *)
(*                 or "disabled" (isEnabled() is false)                    *)
(*   r.act         the driver call of the action: "ok" or "throws"         *)
(*   r.navThrows   page.goto throws                                        *)
(*   r.httpStatus  response.status(), 0 when goto returns no response      *)
(*   r.title       page.title(), lower case                                *)
(*   r.content     page.content()                                          *)
(*   r.url         page.url() once the wait for a URL is over              *)
(*   r.text        textContent() of the element, NULL for none             *)
(*   r.computed    the computed style value read from the element          *)
(*   r.box         boundingBox() is not null                               *)
(* The result is the StepResult the iteration records; status FAIL stands  *)
(* for a throw caught by the catch block, errorMessage being err.message.  *)
(***************************************************************************)
ValueOrEmpty(step) == IF step.value = NULL THEN "" ELSE step.value

\* a faulty variant of execNavigation: the status of the response is not looked at
execNavigationIgnoresStatus(step, r, baseUrl) ==
    LET targetUrl == ValueOrEmpty(step)
        resolvedUrl == resolveTargetUrl(targetUrl, baseUrl)
    IN  IF targetUrl = "" THEN Fail("Missing navigation URL")
        ELSE IF r.navThrows THEN Fail(NavigationErrorMessage)
        ELSE IF Includes(r.title, "not found") /\ Includes(r.title, "werkzeug")
             THEN Fail("Navigation failed: Werkzeug NotFound at " \o resolvedUrl)
        ELSE IF /\ Includes(r.title, "not found")
                /\ Includes(r.content, "Werkzeug")
                /\ Includes(r.content, "Not Found")
             THEN Fail("Navigation failed: Werkzeug NotFound at " \o resolvedUrl)
        ELSE Pass(NULL)

execNavigation(step, r, baseUrl) ==
    LET targetUrl == ValueOrEmpty(step)
        resolvedUrl == resolveTargetUrl(targetUrl, baseUrl)
    IN  IF targetUrl = "" THEN Fail("Missing navigation URL")
        ELSE IF r.navThrows THEN Fail(NavigationErrorMessage)
        ELSE IF r.httpStatus >= 400
             THEN Fail("Navigation failed: " \o ToString(r.httpStatus) \o " " \o resolvedUrl)
        ELSE IF Includes(r.title, "not found") /\ Includes(r.title, "werkzeug")
             THEN Fail("Navigation failed: Werkzeug NotFound at " \o resolvedUrl)
        ELSE IF /\ Includes(r.title, "not found")
                /\ Includes(r.content, "Werkzeug")
                /\ Includes(r.content, "Not Found")
             THEN Fail("Navigation failed: Werkzeug NotFound at " \o resolvedUrl)
        ELSE Pass(NULL)

execScrollTo(step, r) ==
    LET value == ValueOrEmpty(step)
        coord == parseCoordPair(value)
    IN  IF coord.ok
        THEN IF r.act = "throws" THEN Fail(ActionErrorMessage) ELSE Pass(NULL)
        ELSE IF ~NumberIsFinite(value)
             THEN Fail("Invalid scrollTo value (expected x,y or y)")
        ELSE IF r.act = "throws" THEN Fail(ActionErrorMessage)
        ELSE Pass(NULL)

\* the element-targeting prefix shared by waitFor, assert and the actions:
\* the locators must be there, one must resolve, the element must be ready
targetElement(step, r) ==
    IF Len(step.locators) = 0 THEN Fail("No locators for step")
    ELSE IF findLocator(r.counts, step.locators) = 0 THEN Fail("Locator not found")
    ELSE IF r.ready = "timeout" THEN Fail(TimeoutMessage)
    ELSE IF r.ready = "disabled" THEN Fail("Element is disabled")
    ELSE Pass(step.locators[findLocator(r.counts, step.locators)])

execWaitFor(step, r, baseUrl) ==
    IF step.value # NULL /\ StartsWith(step.value, "url:")
    THEN LET urlPart == Slice(step.value, 4)
             matcher == buildUrlMatcher(urlPart, baseUrl)
         IN  IF ~UrlMatches(matcher, r.url) THEN Fail(TimeoutMessage)
             ELSE Pass(NULL)
    ELSE targetElement(step, r)

execAssert(step, r, baseUrl) ==
    IF step.value # NULL /\ StartsWith(step.value, "url:")
    THEN LET urlPart == Slice(step.value, 4)
             matcher == buildUrlMatcher(urlPart, baseUrl)
             expected == resolveTargetUrl(urlPart, baseUrl)
         IN  IF ~UrlMatches(matcher, r.url) THEN Fail(TimeoutMessage)
             ELSE IF isAbsoluteUrl(expected)
                  THEN IF ~Includes(r.url, expected)
                       THEN Fail("URL does not contain " \o expected)
                       ELSE Pass(NULL)
             ELSE IF ~Includes(Pathname(r.url), expected)
                  THEN Fail("URL does not contain " \o expected)
             ELSE Pass(NULL)
    ELSE LET found == targetElement(step, r)
         IN  IF found.status = "FAIL" THEN found
             ELSE IF step.value # NULL /\ StartsWith(step.value, "text:")
                  THEN LET expected == Slice(step.value, 5)
                           text == IF r.text = NULL THEN "" ELSE r.text
                       IN  IF r.act = "throws" THEN Fail(ActionErrorMessage)
                           ELSE IF ~Includes(text, expected)
                                THEN Fail("Text does not contain " \o expected)
                           ELSE found
             ELSE found

execClickAt(step, r, found) ==
    LET raw == ValueOrEmpty(step)
    IN  IF StartsWith(raw, "offset:")
        THEN IF ~parseCoordPair(Slice(raw, 7)).ok THEN Fail("Invalid clickAt offset value")
             ELSE IF ~r.box THEN Fail("Element has no bounding box")
             ELSE IF r.act = "throws" THEN Fail(ActionErrorMessage)
             ELSE found
        ELSE LET coord == IF StartsWith(raw, "abs:") THEN parseCoordPair(Slice(raw, 4))
                          ELSE parseCoordPair(raw)
             IN  IF ~coord.ok THEN Fail("Invalid clickAt value (expected x,y or offset:x,y)")
                 ELSE IF r.act = "throws" THEN Fail(ActionErrorMessage)
                 ELSE found

\* a faulty variant of execType: the sentinel is typed like any other value
execTypeFillsSecret(step, r, found) ==
    IF r.act = "throws" THEN Fail(ActionErrorMessage) ELSE found

\* a faulty variant of execType: the skipped secret is given no explanation
execTypeSkipsSilently(step, r, found) ==
    IF ValueOrEmpty(step) = SecretSentinel THEN Skip(NULL, found.usedLocator)
    ELSE IF r.act = "throws" THEN Fail(ActionErrorMessage)
    ELSE found

execType(step, r, found) ==
    IF ValueOrEmpty(step) = SecretSentinel THEN Skip(SecretMessage, found.usedLocator)
    ELSE IF r.act = "throws" THEN Fail(ActionErrorMessage)
    ELSE found

execAssertCss(step, r, found) ==
    LET expectation == parseCssExpectation(ValueOrEmpty(step))
    IN  IF ~expectation.ok THEN Fail("Invalid assertCss value (expected prop:expected)")
        ELSE IF r.act = "throws" THEN Fail(ActionErrorMessage)
        ELSE IF ~Includes(Trim(r.computed), expectation.expected)
             THEN Fail("CSS " \o expectation.prop \o " does not include "
                       \o expectation.expected \o " (actual: " \o Trim(r.computed) \o ")")
        ELSE found

execAssertCursor(step, r, found) ==
    LET expected == Trim(ValueOrEmpty(step))
    IN  IF expected = "" THEN Fail("Invalid assertCursor value")
        ELSE IF r.act = "throws" THEN Fail(ActionErrorMessage)
        ELSE IF Trim(r.computed) # expected
             THEN Fail("Cursor is " \o Trim(r.computed) \o " (expected " \o expected \o ")")
        ELSE found

\* the actions that only call the driver on the element
DriverActions == {"click", "dblclick", "hover", "select", "check", "uncheck"}

execElementAction(step, r) ==
    LET found == targetElement(step, r)
    IN  IF found.status = "FAIL" THEN found
        ELSE IF step.action_type \in DriverActions
             THEN IF r.act = "throws" THEN Fail(ActionErrorMessage) ELSE found
        ELSE IF step.action_type = "clickAt" THEN execClickAt(step, r, found)
        ELSE IF step.action_type = "type" THEN execType(step, r, found)
        ELSE IF step.action_type = "assertCss" THEN execAssertCss(step, r, found)
        ELSE IF step.action_type = "assertCursor" THEN execAssertCursor(step, r, found)
        ELSE Fail("Unsupported action_type: " \o step.action_type)

executeStep(step, r, baseUrl) ==
    IF step.action_type = "navigation" THEN execNavigation(step, r, baseUrl)
    ELSE IF step.action_type = "scrollTo" THEN execScrollTo(step, r)
    ELSE IF step.action_type = "waitFor" THEN execWaitFor(step, r, baseUrl)
    ELSE IF step.action_type = "assert" THEN execAssert(step, r, baseUrl)
    ELSE execElementAction(step, r)

(***************************************************************************)
(* What the page may answer to a step (the environment's choice).          *)
(***************************************************************************)
DefaultResponse ==
    [counts |-> <<>>, ready |-> "ok", act |-> "ok", navThrows |-> FALSE,
     httpStatus |-> 200, title |-> "home", content |-> "<h1>Home</h1>",
     url |-> "http://app.test/", text |-> NULL, computed |-> "", box |-> TRUE]

NavigationResponses ==
    { [DefaultResponse EXCEPT !.navThrows = TRUE],
      DefaultResponse,
      [DefaultResponse EXCEPT !.httpStatus = 0],
      [DefaultResponse EXCEPT !.httpStatus = 404, !.title = "404 not found",
                              !.content = "<h1>Not Found</h1>"],
      [DefaultResponse EXCEPT !.httpStatus = 400, !.title = "Bad Request"],
      [DefaultResponse EXCEPT !.httpStatus = 500, !.title = "Internal Server Error"],
      [DefaultResponse EXCEPT !.title = "werkzeug: not found"],
      [DefaultResponse EXCEPT !.title = "not found",
                              !.content = "<h1>Not Found</h1> Werkzeug"],
      [DefaultResponse EXCEPT !.title = "not found",
                              !.content = "<h1>Not Found</h1>"] }

PageUrls ==
    { "http://app.test/dashboard", "http://app.test/dashboard?x=1",
      "http://app.test/login" }

UrlResponses == { [DefaultResponse EXCEPT !.url = u] : u \in PageUrls }

ElementResponses(step) ==
    LET texts == IF step.action_type = "assert"
                 THEN {NULL, "Welcome back", "Sign in"} ELSE {NULL}
        styles == IF step.action_type \in {"assertCss", "assertCursor"}
                  THEN {"red", " pointer ", "default"} ELSE {""}
        boxes == IF step.action_type = "clickAt" THEN BOOLEAN ELSE {TRUE}
    IN  { [DefaultResponse EXCEPT !.counts = c, !.ready = rd, !.act = a,
                                  !.text = t, !.computed = st, !.box = b] :
            c \in [1..Len(step.locators) -> CountResults],
            rd \in {"ok", "timeout", "disabled"},
            a \in {"ok", "throws"},
            t \in texts, st \in styles, b \in boxes }

Responses(step) ==
    IF step.action_type = "navigation" THEN NavigationResponses
    ELSE IF /\ step.action_type \in {"waitFor", "assert"}
            /\ step.value # NULL /\ StartsWith(step.value, "url:")
         THEN UrlResponses
    ELSE IF step.action_type = "scrollTo"
         THEN {DefaultResponse, [DefaultResponse EXCEPT !.act = "throws"]}
    ELSE ElementResponses(step)

(***************************************************************************)
(* Stored macros.  A template is a recorded step without its position.     *)
(***************************************************************************)
Template(action, locators, value) ==
    [action_type |-> action, locators |-> locators, value |-> value]

\* the templates of the macros that exercise the run controller
CtlTemplates ==
    { Template("click", <<"css">>, NULL),
      Template("type", <<"css">>, SecretSentinel) }

\* the action vocabulary with its value encodings, and one action outside it
ExecTemplates ==
    { Template("click", <<"data", "css">>, NULL),
      Template("click", <<>>, NULL),
      Template("dblclick", <<"role">>, NULL),
      Template("hover", <<"xpath">>, NULL),
      Template("check", <<"css">>, NULL),
      Template("uncheck", <<"css">>, NULL),
      Template("select", <<"css">>, "opt1"),
      Template("type", <<"data", "css">>, "hello"),
      Template("type", <<"data", "css">>, SecretSentinel),
      Template("clickAt", <<"css">>, "10,20"),
      Template("clickAt", <<"css">>, "abs:1,2"),
      Template("clickAt", <<"css">>, "offset:5,5"),
      Template("clickAt", <<"css">>, "offset:5"),
      Template("clickAt", <<"css">>, "top"),
      Template("navigation", <<>>, "/login"),
      Template("navigation", <<>>, "http://other.test/"),
      Template("navigation", <<>>, NULL),
      Template("waitFor", <<>>, "url:/dashboard"),
      Template("waitFor", <<"css">>, NULL),
      Template("assert", <<>>, "url:/dashboard"),
      Template("assert", <<"css">>, "text:Welcome"),
      Template("assert", <<"css">>, NULL),
      Template("scrollTo", <<>>, "0,100"),
      Template("scrollTo", <<>>, "250"),
      Template("scrollTo", <<>>, "down"),
      Template("scrollTo", <<>>, NULL),
      Template("assertCss", <<"css">>, "color:red"),
      Template("assertCss", <<"css">>, "color"),
      Template("assertCursor", <<"css">>, "pointer"),
      Template("assertCursor", <<"css">>, NULL),
      Template("drag", <<"css">>, NULL),
      Template("drag", <<>>, NULL) }

\* the rows getAllSteps returns for a macro recorded from the templates ts
\* with the enabled flags en: ids are assigned on insert, order_index is 1..n
StepRows(ts, en) ==
    [k \in 1..Len(ts) |->
        [id |-> 10 + k, order_index |-> k, action_type |-> ts[k].action_type,
         locators |-> ts[k].locators, value |-> ts[k].value, enabled |-> en[k]]]

MacrosOver(templates, flags, maxLen) ==
    UNION { { StepRows(ts, en) : ts \in [1..n -> templates], en \in [1..n -> flags] } :
            n \in 1..maxLen }

\* a navigation followed by a click
NavMacro ==
    StepRows(<< Template("navigation", <<>>, "/login"),
                Template("click", <<"css">>, NULL) >>, <<1, 1>>)

\* the options under which it is replayed
NavOptions ==
    [macroId : {"1"}, env : {NULL}, baseUrl : {"http://app.test"}, stopOnFail : BOOLEAN]

\* controller macros: every mix of enabled and disabled steps
CtlMacros == MacrosOver(CtlTemplates, {0, 1}, MaxSteps)
\* macros of the full vocabulary: all steps enabled
ExecMacros == MacrosOver(ExecTemplates, {1}, MaxExecSteps)

(***************************************************************************)
(* The command line and the environment file.                              *)
(***************************************************************************)
\* --macro-id: absent, not a number, the stored macro, a macro not stored
MacroIdArgs == {NULL, "abc", "1", "2"}

\* Number(options.macroId): 0 stands for NaN (no stored macro has id 0)
MacroIdOf(arg) == IF arg = "1" THEN 1 ELSE IF arg = "2" THEN 2 ELSE 0
MacroIdIsFinite(arg) == arg \in {"1", "2"}

NoConfig == [present |-> FALSE, baseURL |-> NULL]

EnvFiles ==
    { [state |-> "absent", envs |-> {}],
      [state |-> "invalid", envs |-> {}],
      [state |-> "parsed", envs |-> {[name |-> "dev", baseURL |-> NULL]}],
      [state |-> "parsed", envs |-> {[name |-> "dev", baseURL |-> "http://dev.test"]}] }

loadEnvConfig(envName, file) ==
    IF file.state = "absent" THEN [config |-> NoConfig, error |-> NULL]
    ELSE IF file.state = "invalid" THEN [config |-> NoConfig, error |-> "invalid envs.json"]
    ELSE IF ~\E e \in file.envs : e.name = envName
         THEN [config |-> NoConfig,
               error |-> "env '" \o envName \o "' not found in envs.json"]
    ELSE [config |-> [present |-> TRUE,
                      baseURL |-> (CHOOSE e \in file.envs : e.name = envName).baseURL],
          error |-> NULL]

OptionsSet ==
    [macroId : MacroIdArgs, env : {NULL, "dev", "prod"},
     baseUrl : {NULL, "", "http://cli.test"}, stopOnFail : BOOLEAN]

\* the options under which the controller macros are replayed
CtlOptions ==
    [macroId : {"1"}, env : {NULL}, baseUrl : {NULL}, stopOnFail : BOOLEAN]

\* the options under which the macros of the full vocabulary are replayed:
\* with and without a base URL, stop-on-fail left at its default
ExecOptions ==
    [macroId : {"1"}, env : {NULL}, baseUrl : {NULL, "http://app.test"},
     stopOnFail : {TRUE}]

(***************************************************************************)
(* State.                                                                  *)
(***************************************************************************)
VARIABLES
    options,      \* the options the run command passes to runMacro
    envsFile,     \* envs.json in the working directory
    dbUp,         \* createRepository can reach the database
    macros,       \* table macros: rows [id, name, base_url]
    steps,        \* table macro_steps: the rows of macro 1, by order_index
    runs,         \* table runs: runs[id] is the row of run id
    stepResults,  \* table run_step_results, in insertion order
    artifacts,    \* table artifacts, in insertion order
    files,        \* the files written under reports/
    canScreenshot,\* page.screenshot succeeds in this run (else it throws)
    report,       \* the report written by the run
    pc,           \* where runMacro is
    i,            \* the loop's position: steps[i] is the next step (1-based)
    failed,       \* runMacro's local flag
    runSummary,   \* runMacro's local counters
    baseUrl,      \* the effective base URL of the run
    browser,      \* "none", "open" or "closed" (browser and its context)
    tracing,      \* "off", "recording" or "stopped"
    initialGoto,  \* page.goto(baseUrl) before the loop: "none", "done", "failed"
    pageLog,      \* what the executor did on the page, one entry per attempt
    rejection,    \* the error runMacro's promise rejected with, NULL for none
    exitCode,     \* process.exitCode
    exitStatus,   \* the exit status of the process, -1 while it runs
    cliOutput,    \* what the last command other than run printed or wrote
    sessions,     \* recordMacro: the state of each recording session
    provider,     \* process.env.DB_PROVIDER, lower-cased
    cachedPostgres,  \* factory.ts: the cached PostgresRepository (NULL for none)
    initialized,  \* PostgresRepository.initialized of the cached repository
    statementsRun,\* how often each schema statement was sent to the pool
    calls         \* the createRepository / pingDatabase calls of the process

\* the recorder's state and the repository factory's state
recorderVars == << sessions >>
factoryVars == << provider, cachedPostgres, initialized, statementsRun, calls >>

vars ==
    << options, envsFile, dbUp, macros, steps, runs, stepResults, artifacts,
       files, canScreenshot, report, pc, i, failed, runSummary, baseUrl, browser, tracing,
       initialGoto, pageLog, rejection, exitCode, exitStatus, cliOutput,
       sessions, provider, cachedPostgres, initialized, statementsRun, calls >>

\* no recording is going on
NoRecording == sessions = <<>>

\* the SQLite provider: the Postgres part of the factory is never entered
NoFactoryCalls ==
    /\ provider = "sqlite"
    /\ cachedPostgres = NULL
    /\ initialized = FALSE
    /\ statementsRun = <<>>
    /\ calls = <<>>

NoSummary == [none |-> TRUE]
NoReport == [none |-> TRUE]
NoMacro == [none |-> TRUE]
NoOutput == [kind |-> "none"]

MacroRows ==
    { [id |-> 1, name |-> "Login flow", base_url |-> NULL],
      [id |-> 1, name |-> "Login flow", base_url |-> "http://macro.test"] }

\* what a replay starts from: the command line, the files and the tables
Configure(o, f, up, m, st, shot) ==
    /\ options = o
    /\ envsFile = f
    /\ dbUp = up
    /\ macros = {m}
    /\ steps = st
    /\ canScreenshot = shot

NoEnvsFile == [state |-> "absent", envs |-> {}]
PlainMacroRow == [id |-> 1, name |-> "Login flow", base_url |-> NULL]

\* The whole option space, every envs.json, an unreachable database and a
\* failing page.screenshot are met by the empty macro and the one-step
\* controller macros; the longer macros are replayed with a reachable
\* database and no envs.json, and the navigation followed by a click also
\* with a failing page.screenshot.
Init ==
    /\ \/ \E o \in CtlOptions, st \in CtlMacros :
             Configure(o, NoEnvsFile, TRUE, PlainMacroRow, st, TRUE)
       \/ \E o \in ExecOptions, st \in ExecMacros :
             Configure(o, NoEnvsFile, TRUE, PlainMacroRow, st, TRUE)
       \/ \E o \in NavOptions, shot \in BOOLEAN :
             Configure(o, NoEnvsFile, TRUE, PlainMacroRow, NavMacro, shot)
       \/ \E o \in OptionsSet, f \in EnvFiles, up \in BOOLEAN, m \in MacroRows,
             st \in {<<>>} \cup MacrosOver(CtlTemplates, {0, 1}, 1), shot \in BOOLEAN :
             Configure(o, f, up, m, st, shot)
    /\ runs = <<>>
    /\ stepResults = <<>>
    /\ artifacts = <<>>
    /\ files = {}
    /\ report = NoReport
    /\ pc = "start"
    /\ i = 1
    /\ failed = FALSE
    /\ runSummary = NoSummary
    /\ baseUrl = NULL
    /\ browser = "none"
    /\ tracing = "off"
    /\ initialGoto = "none"
    /\ pageLog = <<>>
    /\ rejection = NULL
    /\ exitCode = 0
    /\ exitStatus = -1
    /\ cliOutput = NoOutput
    /\ NoRecording
    /\ NoFactoryCalls

(***************************************************************************)
(* Repository operations used by the run.                                  *)
(***************************************************************************)
getMacro(macroId) ==
    IF \E m \in macros : m.id = macroId
    THEN CHOOSE m \in macros : m.id = macroId
    ELSE NoMacro

\* the rows of macro_steps of the macro, disabled ones included
getAllSteps(macroId) == IF macroId = 1 THEN steps ELSE <<>>

createRun(macroId, envName) ==
    Append(runs, [macroId |-> macroId, envName |-> envName,
                  status |-> "RUNNING", summary |-> NoSummary])

finishRun(runId, status, summary) ==
    [runs EXCEPT ![runId].status = status, ![runId].summary = summary]

\* the row addStepResult inserts: what is not given is stored as null
StepResultRow(runId, stepId, status, errorMessage, usedLocator, screenshotPath) ==
    [runId |-> runId, stepId |-> stepId, status |-> status,
     errorMessage |-> errorMessage, usedLocator |-> usedLocator,
     screenshotPath |-> screenshotPath]

ArtifactRow(runId, type, storageUrl) ==
    [runId |-> runId, type |-> type, storageUrl |-> storageUrl]

(***************************************************************************)
(* runMacro: resolving the macro and the environment.                      *)
(***************************************************************************)
EnvName == IF options.env = NULL THEN "dev" ELSE options.env
EnvResult == loadEnvConfig(EnvName, envsFile)
MacroId == MacroIdOf(options.macroId)

Coalesce(a, b) == IF a # NULL THEN a ELSE b

\* a faulty variant of EffectiveBaseUrl: the environment is asked before the
\* command line
EffectiveBaseUrlEnvFirst ==
    Coalesce(EnvResult.config.baseURL,
             Coalesce(options.baseUrl, getMacro(MacroId).base_url))

EffectiveBaseUrl ==
    Coalesce(options.baseUrl,
             Coalesce(EnvResult.config.baseURL, getMacro(MacroId).base_url))

\* a faulty variant of Abort: the early return leaves the exit code alone
AbortKeepsExitCode ==
    /\ pc' = "returned"
    /\ UNCHANGED << recorderVars, factoryVars, cliOutput, options, envsFile, dbUp, canScreenshot, initialGoto, macros, steps, runs, stepResults,
                    artifacts, files, report, i, failed, runSummary, baseUrl,
                    browser, tracing, pageLog, rejection, exitStatus, exitCode >>

\* an early return of runMacro: exit code 1, nothing else touched
Abort ==
    /\ pc' = "returned"
    /\ exitCode' = 1
    /\ UNCHANGED << recorderVars, factoryVars, cliOutput, options, envsFile, dbUp, canScreenshot, initialGoto, macros, steps, runs, stepResults,
                    artifacts, files, report, i, failed, runSummary, baseUrl,
                    browser, tracing, pageLog, rejection, exitStatus >>

AbortInvalidMacroId ==
    /\ pc = "start"
    /\ ~MacroIdIsFinite(options.macroId)
    /\ Abort

AbortEnvError ==
    /\ pc = "start"
    /\ MacroIdIsFinite(options.macroId)
    /\ EnvResult.error # NULL
    /\ Abort

AbortNoDatabase ==
    /\ pc = "start"
    /\ MacroIdIsFinite(options.macroId)
    /\ EnvResult.error = NULL
    /\ ~dbUp
    /\ Abort

AbortMacroNotFound ==
    /\ pc = "start"
    /\ MacroIdIsFinite(options.macroId)
    /\ EnvResult.error = NULL
    /\ dbUp
    /\ getMacro(MacroId) = NoMacro
    /\ Abort

AbortNoSteps ==
    /\ pc = "start"
    /\ MacroIdIsFinite(options.macroId)
    /\ EnvResult.error = NULL
    /\ dbUp
    /\ getMacro(MacroId) # NoMacro
    /\ Len(getAllSteps(MacroId)) = 0
    /\ Abort

\* launch, newContext, newPage, tracing.start, createRun, the counters
Launch ==
    /\ pc = "start"
    /\ MacroIdIsFinite(options.macroId)
    /\ EnvResult.error = NULL
    /\ dbUp
    /\ getMacro(MacroId) # NoMacro
    /\ Len(getAllSteps(MacroId)) > 0
    /\ browser' = "open"
    /\ tracing' = "recording"
    /\ runs' = createRun(MacroId, EnvName)
    /\ runSummary' = [total |-> Len(getAllSteps(MacroId)), passed |-> 0,
                      failed |-> 0, skipped |-> 0, tracePath |-> NULL]
    /\ failed' = FALSE
    /\ baseUrl' = EffectiveBaseUrl
    /\ pc' = "navigate"
    /\ UNCHANGED << recorderVars, factoryVars, cliOutput, options, envsFile, dbUp, canScreenshot, initialGoto, macros, steps, stepResults,
                    artifacts, files, report, i, pageLog, rejection, exitCode,
                    exitStatus >>

\* the run created by Launch
runId == Len(runs)


(***************************************************************************)
(* runMacro: the initial navigation.  page.goto is awaited outside any     *)
(* try block: when it throws, runMacro's promise rejects there.            *)
(***************************************************************************)
HasBaseUrl == baseUrl # NULL /\ baseUrl # ""

InitialNavigationSkipped ==
    /\ pc = "navigate"
    /\ ~HasBaseUrl
    /\ pc' = "loop"
    /\ UNCHANGED << recorderVars, factoryVars, cliOutput, options, envsFile, dbUp, canScreenshot, initialGoto, macros, steps, runs, stepResults,
                    artifacts, files, report, i, failed, runSummary, baseUrl,
                    browser, tracing, pageLog, rejection, exitCode, exitStatus >>

InitialNavigationDone ==
    /\ pc = "navigate"
    /\ HasBaseUrl
    /\ initialGoto' = "done"
    /\ pc' = "loop"
    /\ UNCHANGED << recorderVars, factoryVars, cliOutput, options, envsFile, dbUp, canScreenshot, macros, steps, runs, stepResults,
                    artifacts, files, report, i, failed, runSummary, baseUrl,
                    browser, tracing, pageLog, rejection, exitCode, exitStatus >>

GotoRejection == "page.goto: " \o NavigationErrorMessage

\* a faulty variant of InitialNavigationThrows: the error is caught and recorded as
\* the failure of the first step
InitialNavigationFoldedIntoStep ==
    /\ pc = "navigate"
    /\ HasBaseUrl
    /\ initialGoto' = "failed"
    /\ failed' = TRUE
    /\ stepResults' =
          Append(stepResults,
                 StepResultRow(runId, steps[1].id, "FAIL", NavigationErrorMessage,
                               NULL, NULL))
    /\ runSummary' = [runSummary EXCEPT !.failed = @ + 1]
    /\ i' = i + 1
    /\ pc' = IF i >= Len(steps) THEN "stopTracing" ELSE "loop"
    /\ UNCHANGED << recorderVars, factoryVars, cliOutput, options, envsFile, dbUp, canScreenshot, macros, steps, runs,
                    artifacts, files, report, baseUrl, browser, tracing,
                    pageLog, rejection, exitCode, exitStatus >>

InitialNavigationThrows ==
    /\ pc = "navigate"
    /\ HasBaseUrl
    /\ initialGoto' = "failed"
    /\ pc' = "rejected"
    /\ rejection' = GotoRejection
    /\ UNCHANGED << recorderVars, factoryVars, cliOutput, options, envsFile, dbUp, canScreenshot, macros, steps, runs, stepResults,
                    artifacts, files, report, i, failed, runSummary, baseUrl,
                    browser, tracing, pageLog, exitCode, exitStatus >>

(***************************************************************************)
(* runMacro: the loop over the steps.                                      *)
(***************************************************************************)
\* where the loop goes after steps[i]: its exit once the last step is done
AfterStep(k) == IF k >= Len(steps) THEN "stopTracing" ELSE "loop"

\* what the executor did on the page for a step and what the page answered:
\* the matches of the step's candidates, the candidate findLocator returned
\* (NULL for none), the readiness of that element ("none" when no element
\* was resolved), the locator recorded with the result, and the status of
\* the response page.goto returned to a navigation step (0 for no response,
\* -1 when page.goto was not called or threw), and the URL the page was at
Attempt(step, r, outcome) ==
    [stepId |-> step.id, order_index |-> step.order_index,
     status |-> outcome.status, reason |-> outcome.errorMessage,
     counts |-> r.counts,
     resolved |-> IF findLocator(r.counts, step.locators) = 0 THEN NULL
                  ELSE step.locators[findLocator(r.counts, step.locators)],
     ready |-> IF findLocator(r.counts, step.locators) = 0 THEN "none" ELSE r.ready,
     used |-> outcome.usedLocator,
     httpStatus |-> IF /\ step.action_type = "navigation"
                       /\ ValueOrEmpty(step) # ""
                       /\ ~r.navThrows
                    THEN r.httpStatus ELSE -1,
     url |-> r.url]

\* a faulty variant of DisabledResult: a disabled step is given an explanation
DisabledResultWithMessage(step) ==
    StepResultRow(runId, step.id, "SKIPPED", "step is disabled", NULL, NULL)

\* the row recorded for a disabled step met by the loop
DisabledResult(step) ==
    StepResultRow(runId, step.id, "SKIPPED", NULL, NULL, NULL)

\* a faulty variant of StepDisabled: the skipped step is not counted
StepDisabledUncounted ==
    /\ pc = "loop"
    /\ steps[i].enabled = 0
    /\ stepResults' = Append(stepResults, DisabledResult(steps[i]))
    /\ i' = i + 1
    /\ pc' = AfterStep(i)
    /\ UNCHANGED << recorderVars, factoryVars, cliOutput, options, envsFile, dbUp, canScreenshot, initialGoto, macros, steps, runs, artifacts,
                    files, report, failed, runSummary, baseUrl, browser, tracing, pageLog,
                    rejection, exitCode, exitStatus >>

StepDisabled ==
    /\ pc = "loop"
    /\ steps[i].enabled = 0
    /\ stepResults' = Append(stepResults, DisabledResult(steps[i]))
    /\ runSummary' = [runSummary EXCEPT !.skipped = @ + 1]
    /\ i' = i + 1
    /\ pc' = AfterStep(i)
    /\ UNCHANGED << recorderVars, factoryVars, cliOutput, options, envsFile, dbUp, canScreenshot, initialGoto, macros, steps, runs, artifacts,
                    files, report, failed, baseUrl, browser, tracing, pageLog,
                    rejection, exitCode, exitStatus >>

StepPassed ==
    /\ pc = "loop"
    /\ steps[i].enabled # 0
    /\ \E r \in Responses(steps[i]) :
          LET out == executeStep(steps[i], r, baseUrl)
          IN  /\ out.status = "PASS"
              /\ stepResults' =
                    Append(stepResults,
                           StepResultRow(runId, steps[i].id, "PASS", NULL,
                                         out.usedLocator, NULL))
              /\ pageLog' = Append(pageLog, Attempt(steps[i], r, out))
    /\ runSummary' = [runSummary EXCEPT !.passed = @ + 1]
    /\ i' = i + 1
    /\ pc' = AfterStep(i)
    /\ UNCHANGED << recorderVars, factoryVars, cliOutput, options, envsFile, dbUp, canScreenshot, initialGoto, macros, steps, runs, artifacts,
                    files, report, failed, baseUrl, browser, tracing,
                    rejection, exitCode, exitStatus >>

\* a faulty variant of StepSecretSkipped: the skipped secret fails the run
StepSecretSkippedFailsRun ==
    /\ pc = "loop"
    /\ steps[i].enabled # 0
    /\ \E r \in Responses(steps[i]) :
          LET out == executeStep(steps[i], r, baseUrl)
          IN  /\ out.status = "SKIPPED"
              /\ stepResults' =
                    Append(stepResults,
                           StepResultRow(runId, steps[i].id, "SKIPPED",
                                         out.errorMessage, out.usedLocator, NULL))
              /\ pageLog' = Append(pageLog, Attempt(steps[i], r, out))
    /\ runSummary' = [runSummary EXCEPT !.skipped = @ + 1]
    /\ failed' = TRUE
    /\ i' = i + 1
    /\ pc' = AfterStep(i)
    /\ UNCHANGED << recorderVars, factoryVars, cliOutput, options, envsFile, dbUp, canScreenshot, initialGoto, macros, steps, runs, artifacts,
                    files, report, baseUrl, browser, tracing,
                    rejection, exitCode, exitStatus >>

\* a type step whose value is the secret sentinel: recorded SKIPPED, the
\* loop continues
StepSecretSkipped ==
    /\ pc = "loop"
    /\ steps[i].enabled # 0
    /\ \E r \in Responses(steps[i]) :
          LET out == executeStep(steps[i], r, baseUrl)
          IN  /\ out.status = "SKIPPED"
              /\ stepResults' =
                    Append(stepResults,
                           StepResultRow(runId, steps[i].id, "SKIPPED",
                                         out.errorMessage, out.usedLocator, NULL))
              /\ pageLog' = Append(pageLog, Attempt(steps[i], r, out))
    /\ runSummary' = [runSummary EXCEPT !.skipped = @ + 1]
    /\ i' = i + 1
    /\ pc' = AfterStep(i)
    /\ UNCHANGED << recorderVars, factoryVars, cliOutput, options, envsFile, dbUp, canScreenshot, initialGoto, macros, steps, runs, artifacts,
                    files, report, failed, baseUrl, browser, tracing,
                    rejection, exitCode, exitStatus >>

\* --- the catch block ---
ScreenshotPath(step) ==
    "reports/run-" \o ToString(runId) \o "-step-" \o ToString(step.order_index) \o ".png"

\* a faulty variant of FailedResult: the reason of the failure is not kept
FailedResultLosesReason(step, errorMessage) ==
    StepResultRow(runId, step.id, "FAIL", "step failed", NULL, ScreenshotPath(step))

\* a faulty variant of FailedResult: the error of a failed page.screenshot
\* takes the place of the failure reason of the step
FailedResultScreenshotError(step, errorMessage) ==
    StepResultRow(runId, step.id, "FAIL",
                  IF canScreenshot THEN errorMessage ELSE "page.screenshot: Target closed",
                  NULL, ScreenshotPath(step))

\* the row recorded for the step that failed
FailedResult(step, errorMessage) ==
    StepResultRow(runId, step.id, "FAIL", errorMessage, NULL, ScreenshotPath(step))

\* a faulty variant of RestResult: the enabled flag of the swept step is not looked at
RestResultAlwaysMarked(rest) ==
    StepResultRow(runId, rest.id, "SKIPPED", StopOnFailMessage, NULL, NULL)

\* the row recorded by the stop-on-fail loop for a step after the failed one
RestResult(rest) ==
    IF rest.enabled = 0
    THEN StepResultRow(runId, rest.id, "SKIPPED", NULL, NULL, NULL)
    ELSE StepResultRow(runId, rest.id, "SKIPPED", StopOnFailMessage, NULL, NULL)

\* a faulty variant of RestResults: the stop-on-fail loop starts one step too far
RestResultsSkipsOne(k) == [j \in 1..(Len(steps) - k - 1) |-> RestResult(steps[k + j + 1])]

\* a faulty variant of RestResults: the stop-on-fail loop runs from the last step down
RestResultsBackwards(k) ==
    [j \in 1..(Len(steps) - k) |-> RestResult(steps[Len(steps) - j + 1])]

\* the rows of the stop-on-fail loop, j = k+1 .. Len(steps) (1-based)
RestResults(k) == [j \in 1..(Len(steps) - k) |-> RestResult(steps[k + j])]

\* faulty variants of HaltsOnFailure: the option is ignored, one way or the other
NeverHalts == FALSE
AlwaysHalts == TRUE

\* whether the catch block runs the stop-on-fail loop and leaves the loop
HaltsOnFailure == options.stopOnFail

\* a faulty variant of SummaryAfterFailure: the swept steps are not counted
SummaryIgnoringSwept(swept) == [runSummary EXCEPT !.failed = @ + 1]

\* a faulty variant of SummaryAfterFailure: the failed step is counted with
\* the swept ones too
SummaryCountingFailedAsSwept(swept) ==
    [runSummary EXCEPT !.failed = @ + 1,
                       !.skipped = @ + (IF HaltsOnFailure THEN swept + 1 ELSE 0)]

\* the counters after the catch block: the failed step and, under
\* stop-on-fail, the steps swept after it
SummaryAfterFailure(swept) ==
    [runSummary EXCEPT !.failed = @ + 1, !.skipped = @ + swept]

StepFailed ==
    /\ pc = "loop"
    /\ steps[i].enabled # 0
    /\ \E r \in Responses(steps[i]) :
          LET out == executeStep(steps[i], r, baseUrl)
          IN  /\ out.status = "FAIL"
              /\ pageLog' = Append(pageLog, Attempt(steps[i], r, out))
              /\ stepResults' =
                    IF HaltsOnFailure
                    THEN Append(stepResults, FailedResult(steps[i], out.errorMessage))
                            \o RestResults(i)
                    ELSE Append(stepResults, FailedResult(steps[i], out.errorMessage))
    /\ failed' = TRUE
    /\ files' = IF canScreenshot THEN files \cup {ScreenshotPath(steps[i])} ELSE files
    /\ artifacts' = Append(artifacts,
                           ArtifactRow(runId, "screenshot", ScreenshotPath(steps[i])))
    /\ runSummary' =
          SummaryAfterFailure(IF HaltsOnFailure THEN Len(RestResults(i)) ELSE 0)
    /\ i' = IF HaltsOnFailure THEN i ELSE i + 1
    /\ pc' = IF HaltsOnFailure THEN "stopTracing" ELSE AfterStep(i)
    /\ UNCHANGED << recorderVars, factoryVars, cliOutput, options, envsFile, dbUp, canScreenshot, initialGoto, macros, steps, runs, report,
                    baseUrl, browser, tracing, rejection, exitCode, exitStatus >>

(***************************************************************************)
(* runMacro: after the loop.                                               *)
(***************************************************************************)
TracePath == "reports/run-" \o ToString(runId) \o ".zip"
ReportPath == "reports/run-" \o ToString(runId) \o ".json"

StopTracingFailedRun ==
    /\ pc = "stopTracing"
    /\ failed
    /\ tracing' = "stopped"
    /\ files' = files \cup {TracePath}
    /\ artifacts' = Append(artifacts, ArtifactRow(runId, "trace", TracePath))
    /\ runSummary' = [runSummary EXCEPT !.tracePath = TracePath]
    /\ pc' = "finishRun"
    /\ UNCHANGED << recorderVars, factoryVars, cliOutput, options, envsFile, dbUp, canScreenshot, initialGoto, macros, steps, runs, stepResults,
                    report, i, failed, baseUrl, browser, pageLog, rejection,
                    exitCode, exitStatus >>

\* a faulty variant of StopTracingPassedRun: the trace is kept for every run
StopTracingPassedRunKeepsTrace ==
    /\ pc = "stopTracing"
    /\ ~failed
    /\ tracing' = "stopped"
    /\ files' = files \cup {TracePath}
    /\ artifacts' = Append(artifacts, ArtifactRow(runId, "trace", TracePath))
    /\ runSummary' = [runSummary EXCEPT !.tracePath = TracePath]
    /\ pc' = "finishRun"
    /\ UNCHANGED << recorderVars, factoryVars, cliOutput, options, envsFile, dbUp, canScreenshot, initialGoto, macros, steps, runs, stepResults,
                    report, i, failed, baseUrl, browser, pageLog, rejection,
                    exitCode, exitStatus >>

StopTracingPassedRun ==
    /\ pc = "stopTracing"
    /\ ~failed
    /\ tracing' = "stopped"
    /\ pc' = "finishRun"
    /\ UNCHANGED << recorderVars, factoryVars, cliOutput, options, envsFile, dbUp, canScreenshot, initialGoto, macros, steps, runs, stepResults,
                    artifacts, files, report, i, failed, runSummary, baseUrl,
                    browser, pageLog, rejection, exitCode, exitStatus >>

\* tracing.stop is awaited outside any try block
TracingRejection == "tracing.stop: cannot write the trace"

StopTracingThrows ==
    /\ pc = "stopTracing"
    /\ pc' = "rejected"
    /\ rejection' = TracingRejection
    /\ UNCHANGED << recorderVars, factoryVars, cliOutput, options, envsFile, dbUp, canScreenshot, initialGoto, macros, steps, runs, stepResults,
                    artifacts, files, report, i, failed, runSummary, baseUrl,
                    browser, tracing, pageLog, exitCode, exitStatus >>

\* a faulty variant of TerminalStatus: a skipped step fails the run too
TerminalStatusCountingSkipped ==
    IF failed \/ runSummary.skipped > 0 THEN "FAIL" ELSE "PASS"

\* the status given to finishRun and written in the report
TerminalStatus == IF failed THEN "FAIL" ELSE "PASS"

FinishRun ==
    /\ pc = "finishRun"
    /\ runs' = finishRun(runId, TerminalStatus, runSummary)
    /\ pc' = "report"
    /\ UNCHANGED << recorderVars, factoryVars, cliOutput, options, envsFile, dbUp, canScreenshot, initialGoto, macros, steps, stepResults,
                    artifacts, files, report, i, failed, runSummary, baseUrl,
                    browser, tracing, pageLog, rejection, exitCode, exitStatus >>

\* getRunStepResults: the rows of the run joined with their steps, by
\* order_index; the columns are those of the SQLite repository's SELECT
RunRows(id) == SelectSeq(stepResults, LAMBDA row : row.runId = id)

RECURSIVE SortByOrder(_)
SortByOrder(rows) ==
    IF Len(rows) <= 1 THEN rows
    ELSE LET OrderOf(row) ==
                 (CHOOSE st \in {steps[k] : k \in 1..Len(steps)} :
                     st.id = row.stepId).order_index
             low == CHOOSE k \in 1..Len(rows) :
                       \A m \in 1..Len(rows) :
                          \/ OrderOf(rows[k]) < OrderOf(rows[m])
                          \/ OrderOf(rows[k]) = OrderOf(rows[m]) /\ k <= m
         IN  <<rows[low]>>
                \o SortByOrder(SubSeq(rows, 1, low - 1) \o SubSeq(rows, low + 1, Len(rows)))

\* r JOIN macro_steps s ON r.step_id = s.id, with the columns selected
RECURSIVE JoinWithSteps(_)
JoinWithSteps(rows) ==
    IF Len(rows) = 0 THEN << >>
    ELSE LET s == CHOOSE st \in {steps[k] : k \in 1..Len(steps)} : st.id = Head(rows).stepId
         IN  << [step_id |-> Head(rows).stepId,
                 order_index |-> s.order_index,
                 action_type |-> s.action_type,
                 status |-> Head(rows).status,
                 error_message |-> Head(rows).errorMessage] >>
                \o JoinWithSteps(Tail(rows))

\* a faulty variant of getRunStepResults: the rows written by the stop-on-fail
\* loop are not returned
getRunStepResultsWithoutSwept(id) ==
    LET Executed(row) == row.errorMessage # StopOnFailMessage
    IN  JoinWithSteps(SortByOrder(SelectSeq(RunRows(id), Executed)))

\* SELECT r.step_id, s.order_index, s.action_type, r.status, r.error_message
\* ... ORDER BY s.order_index: these five columns and no other
getRunStepResults(id) == JoinWithSteps(SortByOrder(RunRows(id)))

\* result.<name> of a row object: undefined, hence null after ??, when the
\* query did not select that column
Column(row, name) == IF name \in DOMAIN row THEN row[name] ELSE NULL

\* resultById.get(s.id): the last row of the step in runStepResults, if any
ReportStep(s, runStepResults) ==
    LET mine == {k \in 1..Len(runStepResults) : runStepResults[k].step_id = s.id}
        last == CHOOSE k \in mine : \A m \in mine : m <= k
    IN  [step_id |-> s.id, order_index |-> s.order_index,
         action_type |-> s.action_type,
         status |-> IF mine = {} THEN "UNKNOWN" ELSE runStepResults[last].status,
         error_message |-> IF mine = {} THEN NULL ELSE runStepResults[last].error_message,
         screenshot_path |-> IF mine = {} THEN NULL
                             ELSE Column(runStepResults[last], "screenshot_path"),
         locators |-> s.locators, value |-> s.value, enabled |-> s.enabled]

\* steps.map(...) over the rows read back once from the repository
ReportSteps(runStepResults) ==
    CHOOSE entries \in { [k \in 1..Len(steps) |-> ReportStep(steps[k], results)] :
                          results \in {runStepResults} } : TRUE

\* the object written to reports/run-<id>.json
ReportContent ==
    [runId |-> runId, macroId |-> MacroId,
     macroName |-> getMacro(MacroId).name, envName |-> EnvName,
     status |-> TerminalStatus, summary |-> runSummary,
     steps |-> ReportSteps(getRunStepResults(runId)),
     trace |-> IF failed THEN TracePath ELSE NULL]

WriteReport ==
    /\ pc = "report"
    /\ report' = ReportContent
    /\ files' = files \cup {ReportPath}
    /\ pc' = "close"
    /\ UNCHANGED << recorderVars, factoryVars, cliOutput, options, envsFile, dbUp, canScreenshot, initialGoto, macros, steps, runs, stepResults,
                    artifacts, i, failed, runSummary, baseUrl, browser, tracing,
                    pageLog, rejection, exitCode, exitStatus >>

\* a faulty variant of CloseBrowser: a failed run leaves the exit code alone
CloseBrowserKeepsExitCode ==
    /\ pc = "close"
    /\ browser' = "closed"
    /\ pc' = "returned"
    /\ UNCHANGED << recorderVars, factoryVars, cliOutput, options, envsFile, dbUp, canScreenshot, initialGoto, macros, steps, runs, stepResults,
                    artifacts, files, report, i, failed, runSummary, baseUrl,
                    tracing, pageLog, rejection, exitCode, exitStatus >>

\* context.close, browser.close, the exit code of a failed run
CloseBrowser ==
    /\ pc = "close"
    /\ browser' = "closed"
    /\ exitCode' = IF failed THEN 1 ELSE exitCode
    /\ pc' = "returned"
    /\ UNCHANGED << recorderVars, factoryVars, cliOutput, options, envsFile, dbUp, canScreenshot, initialGoto, macros, steps, runs, stepResults,
                    artifacts, files, report, i, failed, runSummary, baseUrl,
                    tracing, pageLog, rejection, exitStatus >>

(***************************************************************************)
(* The CLI: program.parseAsync(process.argv) is not awaited and has no     *)
(* catch.  When the command's action resolves the process ends with        *)
(* process.exitCode; when it rejects, the rejection is unhandled and Node  *)
(* ends the process with status 1.                                         *)
(***************************************************************************)
ExitAfterReturn ==
    /\ pc = "returned"
    /\ exitStatus' = exitCode
    /\ pc' = "exited"
    /\ UNCHANGED << recorderVars, factoryVars, cliOutput, options, envsFile, dbUp, canScreenshot, initialGoto, macros, steps, runs, stepResults,
                    artifacts, files, report, i, failed, runSummary, baseUrl,
                    browser, tracing, pageLog, rejection, exitCode >>

ExitOnUnhandledRejection ==
    /\ pc = "rejected"
    /\ exitStatus' = 1
    /\ pc' = "exited"
    /\ UNCHANGED << recorderVars, factoryVars, cliOutput, options, envsFile, dbUp, canScreenshot, initialGoto, macros, steps, runs, stepResults,
                    artifacts, files, report, i, failed, runSummary, baseUrl,
                    browser, tracing, pageLog, rejection, exitCode >>

Next ==
    \/ AbortInvalidMacroId
    \/ AbortEnvError
    \/ AbortNoDatabase
    \/ AbortMacroNotFound
    \/ AbortNoSteps
    \/ Launch
    \/ InitialNavigationSkipped
    \/ InitialNavigationDone
    \/ InitialNavigationThrows
    \/ StepDisabled
    \/ StepPassed
    \/ StepSecretSkipped
    \/ StepFailed
    \/ StopTracingFailedRun
    \/ StopTracingPassedRun
    \/ StopTracingThrows
    \/ FinishRun
    \/ WriteReport
    \/ CloseBrowser
    \/ ExitAfterReturn
    \/ ExitOnUnhandledRejection

Spec == Init /\ [][Next]_vars

(***************************************************************************)
(* The other commands of the CLI: macro:disable-step, macro:rename and     *)
(* show-report, with the repository operations they call.  Each command is *)
(* a process of its own over the stored tables and files.                  *)
(***************************************************************************)
MaxCliSteps == 2

\* the value of a numeral without sign or fraction
RECURSIVE NatOf(_)
NatOf(s) ==
    IF Len(s) = 0 THEN 0
    ELSE 10 * NatOf(SubSeq(s, 1, Len(s) - 1))
            + (CHOOSE d \in 0..9 : ToString(d) = SubSeq(s, Len(s), Len(s)))

\* Number.isFinite(Number(arg)) for an option: Number(undefined) is NaN
ArgIsFinite(arg) == arg # NULL /\ NumberIsFinite(arg)
\* Number(arg) for the options given as unsigned whole numerals
ArgValue(arg) == NatOf(Trim(arg))

\* value.replace(/c/g, r)
RECURSIVE ReplaceAll(_, _, _)
ReplaceAll(s, c, r) ==
    IF Len(s) = 0 THEN ""
    ELSE (IF SubSeq(s, 1, 1) = c THEN r ELSE SubSeq(s, 1, 1))
            \o ReplaceAll(Slice(s, 1), c, r)

escapeXml(value) ==
    ReplaceAll(ReplaceAll(ReplaceAll(ReplaceAll(ReplaceAll(value,
        "&", "&amp;"), "<", "&lt;"), ">", "&gt;"), "\"", "&quot;"), "'", "&apos;")

\* a faulty variant of renameMacro: the UPDATE has no WHERE clause
renameMacroEverywhere(table, macroId, name) ==
    [macros |-> { [m EXCEPT !.name = name] : m \in table },
     renamed |-> \E m \in table : m.id = macroId]

\* UPDATE macros SET name = ? WHERE id = ?; returns info.changes > 0
renameMacro(table, macroId, name) ==
    [macros |-> { IF m.id = macroId THEN [m EXCEPT !.name = name] ELSE m : m \in table },
     renamed |-> \E m \in table : m.id = macroId]

\* SELECT id FROM macro_steps WHERE id = ? AND macro_id = ?
isStepInMacro(table, stepId, macroId) ==
    macroId = 1 /\ \E k \in 1..Len(table) : table[k].id = stepId

\* UPDATE macro_steps SET enabled = 0 WHERE macro_id = ? AND order_index = ?
\* on the rows of macro 1; returns info.changes, the number of rows matched
disableStepByOrder(table, macroId, orderIndex) ==
    LET hit == {k \in 1..Len(table) : macroId = 1 /\ table[k].order_index = orderIndex}
    IN  [steps |-> [k \in 1..Len(table) |->
                       IF k \in hit THEN [table[k] EXCEPT !.enabled = 0] ELSE table[k]],
         changes |-> Cardinality(hit)]

\* a faulty variant of disableStepById: the flag of the step is flipped
disableStepByIdToggles(table, stepId) ==
    LET hit == {k \in 1..Len(table) : table[k].id = stepId}
    IN  [steps |-> [k \in 1..Len(table) |->
                       IF k \in hit THEN [table[k] EXCEPT !.enabled = 1 - @] ELSE table[k]],
         changes |-> Cardinality(hit)]

\* UPDATE macro_steps SET enabled = 0 WHERE id = ?
disableStepById(table, stepId) ==
    LET hit == {k \in 1..Len(table) : table[k].id = stepId}
    IN  [steps |-> [k \in 1..Len(table) |->
                       IF k \in hit THEN [table[k] EXCEPT !.enabled = 0] ELSE table[k]],
         changes |-> Cardinality(hit)]

\* a faulty variant of junitTestcase: a skipped step is written like a passed one
junitTestcaseWithoutSkipped(r) ==
    [name |-> escapeXml("step-" \o ToString(r.order_index) \o "-" \o r.action_type),
     children |->
        IF r.status = "FAIL"
        THEN << [tag |-> "failure",
                 message |-> escapeXml(IF r.error_message = NULL THEN "failure"
                                       ELSE r.error_message)] >>
        ELSE << >>]

\* the testcase element written for a row of getRunStepResults
junitTestcase(r) ==
    [name |-> escapeXml("step-" \o ToString(r.order_index) \o "-" \o r.action_type),
     children |->
        IF r.status = "FAIL"
        THEN << [tag |-> "failure",
                 message |-> escapeXml(IF r.error_message = NULL THEN "failure"
                                       ELSE r.error_message)] >>
        ELSE IF r.status = "SKIPPED" THEN << [tag |-> "skipped"] >>
        ELSE << >>]

\* the testsuite element: its counts come from the report's summary
junitXml(rep, results) ==
    [kind |-> "junit",
     tests |-> rep.summary.total,
     failures |-> rep.summary.failed,
     skipped |-> rep.summary.skipped,
     testcases |-> [k \in 1..Len(results) |-> junitTestcase(results[k])]]

\* ---- the stored state a command starts from ----
CliMacros == MacrosOver(CtlTemplates, {0, 1}, MaxCliSteps)
OtherMacroRow == [id |-> 2, name |-> "Signup", base_url |-> "http://macro.test"]

\* The statuses a replay of the macro st leaves behind: outcome[k] says
\* whether the element of step k was found, halt is --stop-on-fail.
StoredStatuses(st, outcome, halt) ==
    [k \in 1..Len(st) |->
        IF halt /\ \E j \in 1..(k - 1) : st[j].enabled = 1 /\ outcome[j] = "fail"
        THEN "SKIPPED"
        ELSE IF st[k].enabled = 0 THEN "SKIPPED"
        ELSE IF outcome[k] = "fail" THEN "FAIL"
        ELSE IF st[k].action_type = "type" /\ st[k].value = SecretSentinel THEN "SKIPPED"
        ELSE "PASS"]

\* the row of step k written by that replay
StoredRow(st, outcome, halt, k) ==
    IF halt /\ \E j \in 1..(k - 1) : st[j].enabled = 1 /\ outcome[j] = "fail"
    THEN RestResult(st[k])
    ELSE IF st[k].enabled = 0 THEN DisabledResult(st[k])
    ELSE IF outcome[k] = "fail" THEN FailedResult(st[k], "Locator not found")
    ELSE IF st[k].action_type = "type" /\ st[k].value = SecretSentinel
         THEN StepResultRow(runId, st[k].id, "SKIPPED", SecretMessage, st[k].locators[1], NULL)
    ELSE StepResultRow(runId, st[k].id, "PASS", NULL, st[k].locators[1], NULL)

\* the rows of steps 1..n, in the order they were inserted
RECURSIVE StoredRows(_, _, _, _)
StoredRows(st, outcome, halt, n) ==
    IF n = 0 THEN << >>
    ELSE Append(StoredRows(st, outcome, halt, n - 1), StoredRow(st, outcome, halt, n))

StoredSummary(statuses) ==
    [total |-> Len(statuses),
     passed |-> Cardinality({k \in 1..Len(statuses) : statuses[k] = "PASS"}),
     failed |-> Cardinality({k \in 1..Len(statuses) : statuses[k] = "FAIL"}),
     skipped |-> Cardinality({k \in 1..Len(statuses) : statuses[k] = "SKIPPED"}),
     tracePath |-> IF \E k \in 1..Len(statuses) : statuses[k] = "FAIL"
                   THEN "reports/run-1.zip" ELSE NULL]

\* no replay of the macro has been made
NothingReplayed ==
    /\ options = [macroId |-> "1", env |-> NULL, baseUrl |-> NULL, stopOnFail |-> TRUE]
    /\ runs = <<>>
    /\ stepResults = <<>>
    /\ artifacts = <<>>
    /\ files = {}
    /\ failed = FALSE
    /\ runSummary = NoSummary
    /\ report = NoReport
    /\ browser = "none"
    /\ tracing = "off"

\* one replay of the macro has been made and reported
Replayed(outcome, halt) ==
    LET statuses == StoredStatuses(steps, outcome, halt)
        fails == {k \in 1..Len(steps) : statuses[k] = "FAIL"}
    IN  /\ options = [macroId |-> "1", env |-> NULL, baseUrl |-> NULL, stopOnFail |-> halt]
        /\ failed = (fails # {})
        /\ runSummary = StoredSummary(statuses)
        /\ runs = << [macroId |-> 1, envName |-> "dev",
                      status |-> IF fails # {} THEN "FAIL" ELSE "PASS",
                      summary |-> StoredSummary(statuses)] >>
        /\ stepResults = StoredRows(steps, outcome, halt, Len(steps))
        /\ artifacts =
              [k \in 1..Cardinality(fails) |->
                  ArtifactRow(1, "screenshot",
                      ScreenshotPath(steps[CHOOSE f \in fails :
                                              Cardinality({g \in fails : g <= f}) = k]))]
              \o (IF fails # {} THEN << ArtifactRow(1, "trace", TracePath) >> ELSE << >>)
        /\ files = {ScreenshotPath(steps[f]) : f \in fails}
                      \cup (IF fails # {} THEN {TracePath} ELSE {})
                      \cup {ReportPath}
        /\ report = ReportContent
        /\ browser = "closed"
        /\ tracing = "stopped"

InitCli ==
    /\ \E st \in CliMacros : steps = st
    /\ macros = {PlainMacroRow, OtherMacroRow}
    /\ \/ NothingReplayed
       \/ \E outcome \in [1..Len(steps) -> {"ok", "fail"}], halt \in BOOLEAN :
             Replayed(outcome, halt)
    /\ envsFile = NoEnvsFile
    /\ dbUp = TRUE
    /\ canScreenshot = TRUE
    /\ pc = "exited"
    /\ i = 1
    /\ baseUrl = NULL
    /\ initialGoto = "none"
    /\ pageLog = <<>>
    /\ rejection = NULL
    /\ exitCode = 0
    /\ exitStatus = 0
    /\ cliOutput = NoOutput
    /\ NoRecording
    /\ NoFactoryCalls

\* ---- the commands ----
\* what a command leaves behind: the tables and files, what it printed or
\* wrote, and the exit status of its process
CliResult(stepsAfter, macrosAfter, filesAfter, output, code) ==
    /\ steps' = stepsAfter
    /\ macros' = macrosAfter
    /\ files' = filesAfter
    /\ cliOutput' = output
    /\ exitCode' = code
    /\ exitStatus' = code
    /\ UNCHANGED << recorderVars, factoryVars, options, envsFile, dbUp, canScreenshot, initialGoto, runs, stepResults,
                    artifacts, report, pc, i, failed, runSummary, baseUrl, browser,
                    tracing, pageLog, rejection >>

CliError(command, message) ==
    CliResult(steps, macros, files,
              [kind |-> "error", command |-> command, message |-> message], 1)

DisableMacroIdArgs == {NULL, "1", "2"}
DisableOrderArgs == {NULL, "1"}
DisableStepIdArgs == {NULL, "12", "99"}

\* options.order ? Number(options.order) : NaN, likewise options.stepId
OptionalArgIsFinite(arg) == arg # NULL /\ arg # "" /\ NumberIsFinite(arg)

\* macro:disable-step
DisableStepCommand ==
    /\ pc = "exited"
    /\ \E macroArg \in DisableMacroIdArgs, orderArg \in DisableOrderArgs,
          stepArg \in DisableStepIdArgs :
          IF OptionalArgIsFinite(stepArg)
          THEN IF ArgIsFinite(macroArg)
                  /\ ~isStepInMacro(steps, ArgValue(stepArg), ArgValue(macroArg))
               THEN CliError("disable-step", "step-id does not belong to the given macro-id")
               ELSE LET res == disableStepById(steps, ArgValue(stepArg))
                    IN  CliResult(res.steps, macros, files,
                                  [kind |-> "disable-step", by |-> "id",
                                   key |-> ArgValue(stepArg), changes |-> res.changes],
                                  IF res.changes = 0 THEN 1 ELSE 0)
          ELSE IF ~ArgIsFinite(macroArg)
               THEN CliError("disable-step", "Missing or invalid --macro-id")
          ELSE IF ~OptionalArgIsFinite(orderArg)
               THEN CliError("disable-step", "Provide --order or --step-id")
          ELSE LET res == disableStepByOrder(steps, ArgValue(macroArg), ArgValue(orderArg))
               IN  CliResult(res.steps, macros, files,
                             [kind |-> "disable-step", by |-> "order",
                              macroId |-> ArgValue(macroArg),
                              key |-> ArgValue(orderArg), changes |-> res.changes],
                             IF res.changes = 0 THEN 1 ELSE 0)

RenameIdArgs == {"0", "1", "3"}
RenameNameArgs == {NULL, " Checkout "}

\* macro:rename
RenameCommand ==
    /\ pc = "exited"
    /\ \E macroArg \in RenameIdArgs, nameArg \in RenameNameArgs :
          IF ~(ArgIsFinite(macroArg) /\ ArgValue(macroArg) > 0)
          THEN CliError("rename", "Missing or invalid --macro-id (must be a positive integer)")
          ELSE IF Len(Trim(IF nameArg = NULL THEN "" ELSE nameArg)) = 0
          THEN CliError("rename", "Missing or invalid --name (must be non-empty)")
          ELSE LET res == renameMacro(macros, ArgValue(macroArg), Trim(nameArg))
               IN  CliResult(steps, res.macros, files,
                             [kind |-> "rename", macroId |-> ArgValue(macroArg),
                              name |-> Trim(nameArg), renamed |-> res.renamed],
                             IF res.renamed THEN 0 ELSE 1)

ShowRunIdArgs == {NULL, "1", "7"}
ReportFormats == {"text", "json", "junit"}

\* show-report
ShowReportCommand ==
    /\ pc = "exited"
    /\ \E runArg \in ShowRunIdArgs, format \in ReportFormats :
          IF ~ArgIsFinite(runArg)
          THEN CliError("show-report", "Missing or invalid --run-id")
          ELSE IF ("reports/run-" \o ToString(ArgValue(runArg)) \o ".json") \notin files
          THEN CliError("show-report", "Report not found")
          ELSE IF format = "json"
          THEN CliResult(steps, macros, files, [kind |-> "json", content |-> report], 0)
          ELSE IF format = "junit"
          THEN CliResult(steps, macros,
                         files \cup {"reports/run-" \o ToString(ArgValue(runArg)) \o ".xml"},
                         junitXml(report, getRunStepResults(ArgValue(runArg))), 0)
          ELSE CliResult(steps, macros, files,
                         [kind |-> "text", status |-> report.status,
                          summary |-> report.summary], 0)

\* the commands that write to the tables of the macros
NextRepo ==
    \/ DisableStepCommand
    \/ RenameCommand

SpecRepo == InitCli /\ [][NextRepo]_vars

\* the command that reads a stored run back
NextReport == ShowReportCommand

SpecReport == InitCli /\ [][NextReport]_vars

(***************************************************************************)
(* Properties of the replay.                                               *)
(***************************************************************************)
\* finishRun has been called for the run
ReachedFinishRun == Len(runs) = 1 /\ runs[1].status \in {"PASS", "FAIL"}

\* runMacro is over: it returned or its promise rejected
RunMacroEnded == pc \in {"returned", "rejected", "exited"}

\* the rows of run_step_results of the run for the step at position k
RowsOfStep(k) ==
    {n \in 1..Len(stepResults) :
        stepResults[n].runId = runId /\ stepResults[n].stepId = steps[k].id}

\* the executor's attempts on the step at position k
AttemptsOfStep(k) == {n \in 1..Len(pageLog) : pageLog[n].stepId = steps[k].id}

StepHasStatus(k, status) == \E n \in RowsOfStep(k) : stepResults[n].status = status

\* C1: in a run that reached finishRun every step of the macro has exactly
\* one StepResult, and there are as many StepResults as steps.
C1_Totality ==
    ReachedFinishRun =>
        /\ \A k \in 1..Len(steps) : Cardinality(RowsOfStep(k)) = 1
        /\ Len(stepResults) = Len(steps)

\* a finished three-step run halted by stop-on-fail at its first step
C1_Witness ==
    /\ ReachedFinishRun
    /\ options.stopOnFail
    /\ Len(steps) = 3
    /\ StepHasStatus(1, "FAIL")
    /\ steps[2].enabled = 0
    /\ steps[3].enabled = 1

\* C2: under stop-on-fail, once the step at position k has failed, every
\* later step has a SKIPPED result, with the stop-on-fail message if the
\* step was enabled and with no message if it was disabled.
C2_StopOnFailSweep ==
    options.stopOnFail =>
        \A k \in 1..Len(steps) :
            StepHasStatus(k, "FAIL") =>
                \A j \in (k + 1)..Len(steps) :
                    /\ RowsOfStep(j) # {}
                    /\ \A n \in RowsOfStep(j) :
                          /\ stepResults[n].status = "SKIPPED"
                          /\ stepResults[n].errorMessage =
                                IF steps[j].enabled = 0 THEN NULL ELSE StopOnFailMessage

\* the first step failed, an enabled and a disabled step follow
C2_Witness ==
    /\ options.stopOnFail
    /\ Len(steps) = 3
    /\ StepHasStatus(1, "FAIL")
    /\ steps[2].enabled = 1
    /\ steps[3].enabled = 0
    /\ pc = "exited"

\* C3: under stop-on-fail nothing is attempted on the page after a failed
\* attempt: a failed attempt is the last entry of the page log.
C3_HaltAfterFailure ==
    options.stopOnFail =>
        \A n \in 1..Len(pageLog) : pageLog[n].status = "FAIL" => n = Len(pageLog)

\* the run is over, its first step failed and enabled steps followed it
C3_Witness ==
    /\ options.stopOnFail
    /\ pc = "exited"
    /\ Len(steps) = 3
    /\ steps[2].enabled = 1
    /\ steps[3].enabled = 1
    /\ Len(pageLog) = 1
    /\ pageLog[1].status = "FAIL"
    /\ pageLog[1].stepId = steps[1].id

\* C4: without stop-on-fail, in a finished run every enabled step was
\* attempted once and its result is the outcome of its own attempt, never
\* the stop-on-fail marker.
C4_ContinueAfterFailure ==
    (~options.stopOnFail /\ ReachedFinishRun) =>
        \A k \in 1..Len(steps) :
            steps[k].enabled # 0 =>
                /\ Cardinality(AttemptsOfStep(k)) = 1
                /\ \A n \in RowsOfStep(k), a \in AttemptsOfStep(k) :
                      /\ stepResults[n].status = pageLog[a].status
                      /\ stepResults[n].errorMessage = pageLog[a].reason
                      /\ stepResults[n].errorMessage # StopOnFailMessage

\* a failed first step followed by a step that passed and one that failed
C4_Witness ==
    /\ ~options.stopOnFail
    /\ ReachedFinishRun
    /\ Len(steps) = 3
    /\ StepHasStatus(1, "FAIL")
    /\ StepHasStatus(2, "PASS")
    /\ StepHasStatus(3, "FAIL")

\* C5: a disabled step is never attempted and its result is SKIPPED with no
\* message, whether the loop met it or the stop-on-fail loop swept it; in a
\* finished run it has such a result.
C5_DisabledSkipped ==
    \A k \in 1..Len(steps) :
        steps[k].enabled = 0 =>
            /\ AttemptsOfStep(k) = {}
            /\ \A n \in RowsOfStep(k) :
                  /\ stepResults[n].status = "SKIPPED"
                  /\ stepResults[n].errorMessage = NULL
            /\ ReachedFinishRun => RowsOfStep(k) # {}

\* a disabled step met by the loop and one swept by stop-on-fail
C5_Witness ==
    /\ ReachedFinishRun
    /\ options.stopOnFail
    /\ Len(steps) = 3
    /\ steps[1].enabled = 0
    /\ StepHasStatus(2, "FAIL")
    /\ steps[3].enabled = 0

\* C6: the status given to finishRun, and the one written in the report,
\* is FAIL exactly when some StepResult of the run is FAIL, else PASS.
C6_TerminalStatus ==
    ReachedFinishRun =>
        /\ runs[1].status = "FAIL" <=>
              \E n \in 1..Len(stepResults) : stepResults[n].status = "FAIL"
        /\ report # NoReport => report.status = runs[1].status

\* a reported PASS run all of whose steps were skipped
C6_Witness ==
    /\ ReachedFinishRun
    /\ report # NoReport
    /\ runs[1].status = "PASS"
    /\ Len(steps) = 2
    /\ StepHasStatus(1, "SKIPPED")
    /\ StepHasStatus(2, "SKIPPED")
    /\ steps[1].enabled = 1

\* C7: once runMacro is over, a run it created is no longer RUNNING.
C7_NoRunLeftRunning ==
    (RunMacroEnded /\ Len(runs) > 0) => runs[runId].status \in {"PASS", "FAIL"}

\* C8: once runMacro is over, the browser it launched is closed and the
\* tracing session it started is stopped.
C8_ResourcesReleased ==
    (RunMacroEnded /\ browser # "none") => (browser = "closed" /\ tracing = "stopped")

\* C9: when the initial navigation fails, runMacro rejects, the process
\* ends with a non-zero status and no StepResult is recorded.
C9_InitialNavigationFailure ==
    initialGoto = "failed" =>
        /\ pc \in {"rejected", "exited"}
        /\ rejection = GotoRejection
        /\ pc = "exited" => exitStatus # 0
        /\ stepResults = <<>>
        /\ pageLog = <<>>

\* the process has ended after a failed initial navigation
C9_Witness ==
    /\ initialGoto = "failed"
    /\ pc = "exited"
    /\ Len(steps) > 0

\* C10: every failed attempt of the executor is recorded as one FAIL
\* StepResult of its step carrying the failure's reason; runMacro never
\* rejects with a step's failure; and a run with a failed step that ended
\* without a rejection was finished and reported.
C10_StepFailuresContained ==
    /\ \A a \in 1..Len(pageLog) :
          pageLog[a].status = "FAIL" =>
              /\ pageLog[a].reason # NULL
              /\ \E n \in 1..Len(stepResults) :
                    /\ stepResults[n].stepId = pageLog[a].stepId
                    /\ stepResults[n].status = "FAIL"
                    /\ stepResults[n].errorMessage = pageLog[a].reason
              /\ \A n \in 1..Len(stepResults) :
                    stepResults[n].stepId = pageLog[a].stepId =>
                       stepResults[n].status = "FAIL"
    /\ rejection \in {NULL, GotoRejection, TracingRejection}
    /\ (pc \in {"returned", "exited"} /\ rejection = NULL /\ pageLog # <<>>) =>
          (ReachedFinishRun /\ report # NoReport)

\* a reported run whose only step is outside the vocabulary
C10_Witness ==
    /\ ReachedFinishRun
    /\ report # NoReport
    /\ pc = "exited"
    /\ Len(pageLog) = 1
    /\ pageLog[1].status = "FAIL"
    /\ pageLog[1].reason = "Unsupported action_type: drag"

\* page.screenshot threw for a failed step of the run
ScreenshotFailed ==
    /\ ~canScreenshot
    /\ \E n \in 1..Len(stepResults) : stepResults[n].status = "FAIL"

\* context.tracing.stop({ path }) threw while writing the trace of a failed run
TraceWriteFailed == failed /\ rejection = TracingRejection

\* C11: a failure to capture an artifact (the screenshot of a failed step,
\* the trace of a failed run) leaves the run finished with the status its
\* steps gave it, and reported.
C11_ArtifactFailureContained ==
    (RunMacroEnded /\ (ScreenshotFailed \/ TraceWriteFailed)) =>
        /\ ReachedFinishRun
        /\ runs[1].status = "FAIL"
        /\ report # NoReport

AllEnabled == \A k \in 1..Len(steps) : steps[k].enabled # 0
NoSecretValues == \A k \in 1..Len(steps) : steps[k].value # SecretSentinel

\* C12: a stop-on-fail run of n enabled steps without secret values whose
\* step at position k failed ends FAIL with the summary total = n,
\* passed = k - 1, failed = 1, skipped = n - k.
C12_StopOnFailSummary ==
    (ReachedFinishRun /\ options.stopOnFail /\ AllEnabled /\ NoSecretValues) =>
        \A k \in 1..Len(steps) :
            StepHasStatus(k, "FAIL") =>
                /\ runs[1].status = "FAIL"
                /\ runs[1].summary.total = Len(steps)
                /\ runs[1].summary.passed = k - 1
                /\ runs[1].summary.failed = 1
                /\ runs[1].summary.skipped = Len(steps) - k

\* three enabled steps, the second fails: the summary is {3, 1, 1, 1}
C12_Witness ==
    /\ ReachedFinishRun
    /\ options.stopOnFail
    /\ AllEnabled
    /\ NoSecretValues
    /\ Len(steps) = 3
    /\ StepHasStatus(2, "FAIL")
    /\ runs[1].summary.skipped = 1

\* how many of the rows read back for a run have the given status
CountWithStatus(rows, status) ==
    Cardinality({n \in 1..Len(rows) : rows[n].status = status})

\* C13: the summary given to finishRun is the one re-derived from the
\* persisted StepResults of the run: their number, and their number by status.
C13_SummaryRoundTrip ==
    ReachedFinishRun =>
        LET rows == getRunStepResults(1)
        IN  /\ runs[1].summary.total = Len(rows)
            /\ runs[1].summary.passed = CountWithStatus(rows, "PASS")
            /\ runs[1].summary.failed = CountWithStatus(rows, "FAIL")
            /\ runs[1].summary.skipped = CountWithStatus(rows, "SKIPPED")

\* a finished run with a disabled, a failed and a passed step
C13_Witness ==
    /\ ReachedFinishRun
    /\ Len(steps) = 3
    /\ steps[1].enabled = 0
    /\ StepHasStatus(2, "FAIL")
    /\ StepHasStatus(3, "PASS")
    /\ runs[1].summary.total = 3

\* the step at position k is an enabled type step whose value is the sentinel
SecretTypeStep(k) ==
    /\ steps[k].enabled # 0
    /\ steps[k].action_type = "type"
    /\ steps[k].value = SecretSentinel

\* the reasons for which the element of a step cannot be acted upon
TargetingReasons ==
    {"No locators for step", "Locator not found", TimeoutMessage, "Element is disabled"}

\* C14 as stated: whenever an enabled secret type step is executed, its
\* result is SKIPPED with a non-empty message, never FAIL.
C14_SecretAlwaysSkipped ==
    \A k \in 1..Len(steps) :
        SecretTypeStep(k) =>
            \A a \in AttemptsOfStep(k) :
                /\ pageLog[a].status = "SKIPPED"
                /\ pageLog[a].reason \notin {NULL, ""}

\* C14 amended: an enabled secret type step whose element resolves and is
\* visible and enabled is SKIPPED with the secret message and the locator
\* used, and recorded so; when its element does not resolve or is not ready
\* it fails with the targeting reason, as any element-targeting step does.
C14_SecretSkippedWhenElementReady ==
    \A k \in 1..Len(steps) :
        SecretTypeStep(k) =>
            \A a \in AttemptsOfStep(k) :
                IF pageLog[a].ready = "ok"
                THEN /\ pageLog[a].status = "SKIPPED"
                     /\ pageLog[a].reason = SecretMessage
                     /\ \A n \in RowsOfStep(k) :
                           /\ stepResults[n].status = "SKIPPED"
                           /\ stepResults[n].errorMessage = SecretMessage
                           /\ stepResults[n].usedLocator = pageLog[a].used
                     /\ RowsOfStep(k) # {}
                ELSE /\ pageLog[a].status = "FAIL"
                     /\ pageLog[a].reason \in TargetingReasons

\* a secret type step skipped on an element found by its second candidate
C14_Witness ==
    /\ Len(steps) = 1
    /\ SecretTypeStep(1)
    /\ Len(steps[1].locators) = 2
    /\ Len(pageLog) = 1
    /\ pageLog[1].counts[1] = "zero"
    /\ pageLog[1].ready = "ok"
    /\ StepHasStatus(1, "SKIPPED")
    /\ pc = "exited"
    /\ exitStatus = 0

\* the step just executed was skipped for secret redaction
SecretSkipStep ==
    /\ Len(pageLog') = Len(pageLog) + 1
    /\ pageLog'[Len(pageLog')].status = "SKIPPED"

\* C15: a step skipped for secret redaction adds one to the skipped counter
\* and to nothing else, records one result, leaves the run not failed if it
\* was not, sweeps no later step, and the loop goes on to the next step (or
\* to its end after the last one), whatever stopOnFail is.
C15_SecretSkipContinues ==
    [][SecretSkipStep =>
          /\ runSummary' = [runSummary EXCEPT !.skipped = @ + 1]
          /\ failed' = failed
          /\ Len(stepResults') = Len(stepResults) + 1
          /\ stepResults'[Len(stepResults')].stepId = steps[i].id
          /\ stepResults'[Len(stepResults')].errorMessage = SecretMessage
          /\ i' = i + 1
          /\ pc' = IF i < Len(steps) THEN "loop" ELSE "stopTracing"
          /\ runs' = runs]_vars

\* under stop-on-fail a secret step was skipped, the next step was executed
\* and passed, and the run ended PASS
C15_Witness ==
    /\ options.stopOnFail
    /\ ReachedFinishRun
    /\ runs[1].status = "PASS"
    /\ Len(steps) = 2
    /\ SecretTypeStep(1)
    /\ Len(pageLog) = 2
    /\ pageLog[1].status = "SKIPPED"
    /\ pageLog[2].status = "PASS"
    /\ runs[1].summary.skipped = 1

\* the trace artifacts registered for run id
TraceArtifacts(id) ==
    {n \in 1..Len(artifacts) : artifacts[n].runId = id /\ artifacts[n].type = "trace"}

\* C16: a finished run has one trace artifact and a trace path in its
\* summary and report if its status is FAIL, and none if it is PASS.
C16_TraceOnlyOnFail ==
    ReachedFinishRun =>
        /\ Cardinality(TraceArtifacts(1)) = IF runs[1].status = "FAIL" THEN 1 ELSE 0
        /\ runs[1].summary.tracePath = IF runs[1].status = "FAIL" THEN TracePath ELSE NULL
        /\ (TracePath \in files) <=> (runs[1].status = "FAIL")
        /\ report # NoReport =>
              report.trace = IF runs[1].status = "FAIL" THEN TracePath ELSE NULL

\* a reported FAIL run with its trace, after a failure that did not halt it
C16_Witness ==
    /\ ReachedFinishRun
    /\ report # NoReport
    /\ runs[1].status = "FAIL"
    /\ ~options.stopOnFail
    /\ Len(steps) = 2
    /\ StepHasStatus(1, "FAIL")
    /\ StepHasStatus(2, "PASS")
    /\ TraceArtifacts(1) # {}

\* the step reaches the element-targeting part of the executor
TargetsElement(step) ==
    /\ step.action_type \notin {"navigation", "scrollTo"}
    /\ ~(/\ step.action_type \in {"waitFor", "assert"}
         /\ step.value # NULL
         /\ StartsWith(step.value, "url:"))

\* the step an attempt of the page log belongs to: order_index is the
\* step's position in the list getAllSteps returned
StepOfAttempt(a) == steps[pageLog[a].order_index]

\* the candidates whose query gave at least one match
Resolving(counts) == {k \in DOMAIN counts : counts[k] = "some"}

\* C17: for a step that targets an element through a non-empty candidate
\* list, the locator used is the first candidate of the list with a match,
\* those before it having no match or a query error; when no candidate has a
\* match the step fails with "Locator not found", nothing is used and the
\* element is not acted upon; and that is the only case of that failure.
C17_FirstResolvingCandidate ==
    \A a \in 1..Len(pageLog) :
        LET st == StepOfAttempt(a)
            c == pageLog[a].counts
        IN  (TargetsElement(st) /\ Len(st.locators) > 0) =>
               /\ Resolving(c) = {} =>
                     /\ pageLog[a].status = "FAIL"
                     /\ pageLog[a].reason = "Locator not found"
                     /\ pageLog[a].used = NULL
                     /\ pageLog[a].ready = "none"
               /\ pageLog[a].reason = "Locator not found" => Resolving(c) = {}
               /\ pageLog[a].status \in {"PASS", "SKIPPED"} =>
                     \E k \in Resolving(c) :
                        /\ \A m \in 1..(k - 1) : c[m] \in {"zero", "error"}
                        /\ pageLog[a].used = st.locators[k]
                        /\ \A n \in 1..Len(stepResults) :
                              stepResults[n].stepId = st.id =>
                                 stepResults[n].usedLocator = st.locators[k]

\* a click passed on its second candidate after the query of the first threw
C17_Witness ==
    /\ Len(pageLog) = 1
    /\ pageLog[1].status = "PASS"
    /\ pageLog[1].counts = <<"error", "some">>
    /\ pageLog[1].used = "css"
    /\ StepOfAttempt(1).action_type = "click"
    /\ StepHasStatus(1, "PASS")

\* the priority of a locator type: data > role > css > xpath
Rank(type) ==
    CASE type = "data" -> 1
      [] type = "role" -> 2
      [] type = "css" -> 3
      [] type = "xpath" -> 4

\* the list goes from the highest priority to the lowest
PriorityOrdered(locators) ==
    \A j \in 1..Len(locators) : \A k \in (j + 1)..Len(locators) :
        Rank(locators[j]) < Rank(locators[k])

Vocabulary ==
    {"navigation", "scrollTo", "waitFor", "assert", "clickAt", "type",
     "assertCss", "assertCursor"} \cup DriverActions

\* C19: whenever an enabled step whose action type is outside the vocabulary
\* is executed, it fails with the unsupported-action reason.
C19_UnsupportedActionFails ==
    \A a \in 1..Len(pageLog) :
        StepOfAttempt(a).action_type \notin Vocabulary =>
            /\ pageLog[a].status = "FAIL"
            /\ pageLog[a].reason = "Unsupported action_type: " \o StepOfAttempt(a).action_type

\* the macro or the environment of the replay could not be resolved: no
\* usable --macro-id, an unusable envs.json, no database, no such macro
MacroOrEnvUnresolved ==
    \/ ~MacroIdIsFinite(options.macroId)
    \/ EnvResult.error # NULL
    \/ ~dbUp
    \/ getMacro(MacroId) = NoMacro

RunEndedWith(status) == Len(runs) = 1 /\ runs[1].status = status

EnvDefined ==
    /\ envsFile.state = "parsed"
    /\ \E e \in envsFile.envs : e.name = EnvName

\* C21: a replay started with an --env name that the environment
\* configuration does not define (no envs.json at all included) creates no
\* run, launches no browser and exits non-zero.
C21_UnknownEnvIsHardError ==
    (options.env # NULL /\ ~EnvDefined) =>
        /\ Len(runs) = 0
        /\ browser = "none"
        /\ pc = "exited" => exitStatus # 0


(***************************************************************************)
(* C22: the early returns of runMacro.                                     *)
(***************************************************************************)
\* --macro-id is missing or not a number
InvalidMacroId == ~MacroIdIsFinite(options.macroId)

\* no stored macro has the id given
MacroMissing == MacroIdIsFinite(options.macroId) /\ ~\E m \in macros : m.id = MacroId

\* envs.json is there and does not define the name of the environment
EnvUnknown == envsFile.state = "parsed" /\ ~EnvDefined

\* the macro is stored and has no step rows
MacroHasNoSteps ==
    /\ \E m \in macros : m.id = MacroId
    /\ Len(getAllSteps(MacroId)) = 0

InvalidValueEncoding(step) ==
    LET raw == ValueOrEmpty(step)
    IN  \/ /\ step.action_type = "clickAt"
           /\ ~parseCoordPair(IF StartsWith(raw, "offset:") THEN Slice(raw, 7)
                              ELSE IF StartsWith(raw, "abs:") THEN Slice(raw, 4)
                              ELSE raw).ok
        \/ /\ step.action_type = "scrollTo"
           /\ ~parseCoordPair(raw).ok
           /\ ~NumberIsFinite(raw)
        \/ /\ step.action_type = "assertCss"
           /\ ~parseCssExpectation(raw).ok

\* C23: a macro with an enabled step whose value encoding is invalid is
\* refused before any step runs: no browser is launched, no run is created,
\* nothing is attempted on a page and no step result is written.
C23_InvalidEncodingAborts ==
    (\E k \in 1..Len(steps) : steps[k].enabled = 1 /\ InvalidValueEncoding(steps[k])) =>
        /\ browser = "none"
        /\ runs = <<>>
        /\ pageLog = <<>>
        /\ stepResults = <<>>


(***************************************************************************)
(* C24: one step at a time, in the order of getAllSteps.                   *)
(***************************************************************************)
\* C24: the StepResults are written in the order getAllSteps returned the
\* steps, one per step; the steps are attempted in ascending order_index;
\* when the loop is about to process step i the results of all steps before
\* it are written and none of a later one; and whenever a step has been
\* attempted, every step before it has its result.
C24_SequentialOrder ==
    /\ Len(stepResults) <= Len(steps)
    /\ \A n \in 1..Len(stepResults) : stepResults[n].stepId = steps[n].id
    /\ \A n \in 1..Len(stepResults) : steps[n].order_index = n
    /\ \A a \in 1..Len(pageLog) : \A b \in (a + 1)..Len(pageLog) :
          pageLog[a].order_index < pageLog[b].order_index
    /\ pc = "loop" => Len(stepResults) = i - 1
    /\ \A a \in 1..Len(pageLog) :
          /\ Len(stepResults) >= pageLog[a].order_index
          /\ stepResults[pageLog[a].order_index].stepId = pageLog[a].stepId

\* a three-step replay that continued after a failure: the second step
\* failed, the third was attempted after it, and all three results are there
C24_Witness ==
    /\ Len(steps) = 3
    /\ Len(stepResults) = 3
    /\ Len(pageLog) >= 2
    /\ \E a \in 1..Len(pageLog) : pageLog[a].order_index = 2 /\ pageLog[a].status = "FAIL"
    /\ \E a \in 1..Len(pageLog) : pageLog[a].order_index = 3


(***************************************************************************)
(* C25: the shape of the report.                                           *)
(***************************************************************************)
StepStatuses == {"PASS", "FAIL", "SKIPPED"}

\* C25: the report of a finished run has exactly one entry per step of the
\* macro, in order_index order, each for the step at that position, and
\* every entry's status is PASS, FAIL or SKIPPED, never "UNKNOWN".
C25_ReportShape ==
    report # NoReport =>
        /\ Len(report.steps) = Len(steps)
        /\ \A k \in 1..Len(steps) :
              /\ report.steps[k].step_id = steps[k].id
              /\ report.steps[k].order_index = steps[k].order_index
              /\ report.steps[k].status \in StepStatuses
        /\ \A k \in 1..(Len(steps) - 1) :
              report.steps[k].order_index < report.steps[k + 1].order_index

\* the report of a failing three-step run that stop-on-fail halted at its
\* first step: one FAIL entry and two SKIPPED entries
C25_Witness ==
    /\ report # NoReport
    /\ report.status = "FAIL"
    /\ options.stopOnFail
    /\ Len(report.steps) = 3
    /\ report.steps[1].status = "FAIL"
    /\ report.steps[2].status = "SKIPPED"
    /\ report.steps[2].error_message = StopOnFailMessage
    /\ report.steps[3].status = "SKIPPED"


(***************************************************************************)
(* C26: the report against the stored step results.                        *)
(***************************************************************************)
\* the stored StepResult of a step in the run of the report
StoredResult(stepId) ==
    CHOOSE row \in {stepResults[n] : n \in 1..Len(stepResults)} :
        row.runId = report.runId /\ row.stepId = stepId

\* C26: for every step the report entry's status, error_message and
\* screenshot_path are the values stored in that step's StepResult, so the
\* screenshot pointer of a FAIL entry is the path addStepResult persisted.
C26_ReportMatchesStoredResults ==
    report # NoReport =>
        \A k \in 1..Len(report.steps) :
            /\ report.steps[k].status = StoredResult(report.steps[k].step_id).status
            /\ report.steps[k].error_message =
                  StoredResult(report.steps[k].step_id).errorMessage
            /\ report.steps[k].screenshot_path =
                  StoredResult(report.steps[k].step_id).screenshotPath


(***************************************************************************)
(* C27: the JUnit rendering of a run.                                      *)
(***************************************************************************)
\* the testcase element has a child element with that tag
HasChild(testcase, tag) ==
    \E c \in 1..Len(testcase.children) : testcase.children[c].tag = tag

\* the step a stored StepResult belongs to
StepOfRow(row) == CHOOSE st \in {steps[k] : k \in 1..Len(steps)} : st.id = row.stepId

\* C27: the JUnit file written by show-report has exactly one testcase per
\* StepResult of the run, named step-{order_index}-{action_type}; the
\* testcase has a failure child exactly when the stored status is FAIL, a
\* skipped child exactly when it is SKIPPED, and no child when it is PASS.
C27_JUnitMapping ==
    cliOutput.kind = "junit" =>
        /\ Len(cliOutput.testcases) = Len(RunRows(1))
        /\ \A n \in 1..Len(RunRows(1)) :
              LET row == RunRows(1)[n]
                  named == {k \in 1..Len(cliOutput.testcases) :
                               cliOutput.testcases[k].name =
                                  "step-" \o ToString(StepOfRow(row).order_index)
                                     \o "-" \o StepOfRow(row).action_type}
              IN  /\ Cardinality(named) = 1
                  /\ \A k \in named :
                        /\ HasChild(cliOutput.testcases[k], "failure") <=> row.status = "FAIL"
                        /\ HasChild(cliOutput.testcases[k], "skipped") <=> row.status = "SKIPPED"
                        /\ row.status = "PASS" => cliOutput.testcases[k].children = << >>
                        /\ Len(cliOutput.testcases[k].children) <= 1

\* the JUnit file of a two-step run that stop-on-fail halted: the first
\* testcase has a failure child, the second a skipped child
C27_Witness ==
    /\ cliOutput.kind = "junit"
    /\ Len(cliOutput.testcases) = 2
    /\ cliOutput.testcases[1].name = "step-1-click"
    /\ HasChild(cliOutput.testcases[1], "failure")
    /\ HasChild(cliOutput.testcases[2], "skipped")
    /\ "reports/run-1.xml" \in files


(***************************************************************************)
(* C28: disabling a step.                                                  *)
(***************************************************************************)
\* the rows of macro_steps the disable command that produced the output
\* out addressed: by step id, or by macro id and order index
Targeted(out, k) ==
    IF out.by = "id" THEN steps[k].id = out.key
    ELSE out.macroId = 1 /\ steps[k].order_index = out.key

\* C28: no command ever changes anything of a step but its enabled flag, and
\* that only from 1 to 0; macro:disable-step sets the flag of the rows it
\* addresses to 0 and leaves every other row, the macros, the runs, their
\* results and the files as they are, reports the number of rows addressed,
\* and applied again to the state it produced changes nothing.
C28_DisableIsPermanent ==
    [][ /\ Len(steps') = Len(steps)
        /\ \A k \in 1..Len(steps) :
              /\ steps'[k].enabled <= steps[k].enabled
              /\ [steps'[k] EXCEPT !.enabled = steps[k].enabled] = steps[k]
        /\ cliOutput'.kind = "disable-step" =>
              /\ \A k \in 1..Len(steps) :
                    steps'[k] = IF Targeted(cliOutput', k)
                                THEN [steps[k] EXCEPT !.enabled = 0]
                                ELSE steps[k]
              /\ cliOutput'.changes =
                    Cardinality({k \in 1..Len(steps) : Targeted(cliOutput', k)})
              /\ UNCHANGED << macros, runs, stepResults, artifacts, files, report >>
              /\ IF cliOutput'.by = "id"
                 THEN disableStepById(steps', cliOutput'.key).steps = steps'
                 ELSE disableStepByOrder(steps', cliOutput'.macroId,
                                         cliOutput'.key).steps = steps'
      ]_vars

\* the second step of a two-step macro, which the stored replay executed
\* and passed, has been disabled by its id; the first step is still enabled
C28_Witness ==
    /\ cliOutput.kind = "disable-step"
    /\ cliOutput.by = "id"
    /\ cliOutput.key = 12
    /\ cliOutput.changes = 1
    /\ exitCode = 0
    /\ Len(steps) = 2
    /\ steps[1].enabled = 1
    /\ steps[2].enabled = 0
    /\ Len(stepResults) = 2
    /\ stepResults[2].status = "PASS"


(***************************************************************************)
(* C29: renaming a macro.                                                  *)
(***************************************************************************)
\* C29: no command changes the id or the base URL of a macro, adds or
\* removes a macro; macro:rename gives the addressed macro the new name and
\* leaves its base URL, its steps and every other macro as they are; for an
\* id that no macro has, renameMacro returns false and nothing changes.
C29_RenameOnly ==
    [][ /\ {[id |-> m.id, base_url |-> m.base_url] : m \in macros'}
              = {[id |-> m.id, base_url |-> m.base_url] : m \in macros}
        /\ Cardinality(macros') = Cardinality(macros)
        /\ cliOutput'.kind = "rename" =>
              /\ macros' = { IF m.id = cliOutput'.macroId
                             THEN [id |-> m.id, name |-> cliOutput'.name,
                                   base_url |-> m.base_url]
                             ELSE m : m \in macros }
              /\ cliOutput'.renamed <=> \E m \in macros : m.id = cliOutput'.macroId
              /\ ~cliOutput'.renamed => (macros' = macros /\ exitCode' = 1)
              /\ UNCHANGED << steps, runs, stepResults, artifacts, files, report >>
      ]_vars

\* macro 1 has been renamed: it carries the new name and its base URL, the
\* other macro is as it was
C29_Witness ==
    /\ cliOutput.kind = "rename"
    /\ cliOutput.macroId = 1
    /\ cliOutput.renamed
    /\ exitCode = 0
    /\ [id |-> 1, name |-> "Checkout", base_url |-> NULL] \in macros
    /\ OtherMacroRow \in macros
    /\ Len(steps) = 2


(***************************************************************************)
(* C30: a navigation answered with an HTTP error status.                   *)
(***************************************************************************)
\* the position in the macro of the step of an attempt
PositionOf(a) == pageLog[a].order_index

\* C30: a navigation step whose page.goto returned a response with status
\* 400 or more ends FAIL with the status in its reason, never PASS or
\* SKIPPED, and is handled like any other failure: the run is marked failed,
\* the failure is counted, and under stop-on-fail nothing is attempted
\* after it and every later step gets a SKIPPED result.
C30_HttpErrorFailsNavigation ==
    \A a \in 1..Len(pageLog) :
        pageLog[a].httpStatus >= 400 =>
            /\ pageLog[a].status = "FAIL"
            /\ StartsWith(pageLog[a].reason,
                          "Navigation failed: " \o ToString(pageLog[a].httpStatus))
            /\ StepHasStatus(PositionOf(a), "FAIL")
            /\ ~StepHasStatus(PositionOf(a), "PASS")
            /\ ~StepHasStatus(PositionOf(a), "SKIPPED")
            /\ failed
            /\ runSummary.failed >= 1
            /\ options.stopOnFail =>
                  /\ a = Len(pageLog)
                  /\ pc # "loop"
                  /\ \A k \in (PositionOf(a) + 1)..Len(steps) : StepHasStatus(k, "SKIPPED")
            /\ ~options.stopOnFail =>
                  (pc = "loop" => i > PositionOf(a))

\* a navigation answered with 404 under stop-on-fail: the run ended FAIL,
\* the click after it was not attempted and has a SKIPPED result
C30_Witness ==
    /\ pc = "exited"
    /\ options.stopOnFail
    /\ Len(steps) = 2
    /\ Len(pageLog) = 1
    /\ pageLog[1].httpStatus = 404
    /\ StepHasStatus(1, "FAIL")
    /\ StepHasStatus(2, "SKIPPED")
    /\ RunEndedWith("FAIL")
    /\ exitStatus = 1


(***************************************************************************)
(* C31: an assert on the URL while the page is at /dashboard?x=1.          *)
(***************************************************************************)
\* the attempt was an assert of "url:/dashboard" on a page at /dashboard?x=1
DashboardAssert(a) ==
    /\ StepOfAttempt(a).action_type = "assert"
    /\ StepOfAttempt(a).value = "url:/dashboard"
    /\ Pathname(pageLog[a].url) = "/dashboard"
    /\ pageLog[a].url = Origin(pageLog[a].url) \o "/dashboard?x=1"

\* C31: an assert step with value "url:/dashboard" evaluated while the page
\* is at /dashboard?x=1 ends PASS, with and without a base URL of the run.
C31_UrlAssertPathContainment ==
    \A a \in 1..Len(pageLog) : DashboardAssert(a) => pageLog[a].status = "PASS"


(***************************************************************************)
(* C32: a failed step whose screenshot cannot be captured.                 *)
(***************************************************************************)
\* C32: when page.screenshot fails for a failed step, the step's result is
\* still FAIL with the failure reason of the step as its message; under
\* stop-on-fail nothing is attempted after it and every later step gets the
\* row of the stop-on-fail loop, and without stop-on-fail every later
\* enabled step of a finished run was attempted.
C32_ScreenshotFailureKeepsResult ==
    ~canScreenshot =>
        \A a \in 1..Len(pageLog) :
            pageLog[a].status = "FAIL" =>
                /\ Cardinality(RowsOfStep(PositionOf(a))) = 1
                /\ \A n \in RowsOfStep(PositionOf(a)) :
                      /\ stepResults[n].status = "FAIL"
                      /\ stepResults[n].errorMessage = pageLog[a].reason
                /\ options.stopOnFail =>
                      /\ a = Len(pageLog)
                      /\ \A k \in (PositionOf(a) + 1)..Len(steps) :
                            /\ Cardinality(RowsOfStep(k)) = 1
                            /\ \A n \in RowsOfStep(k) :
                                  stepResults[n] = RestResult(steps[k])
                /\ (~options.stopOnFail /\ ReachedFinishRun) =>
                      \A k \in (PositionOf(a) + 1)..Len(steps) :
                          steps[k].enabled # 0 =>
                              Cardinality(AttemptsOfStep(k)) = 1

\* the navigation failed, its screenshot could not be taken, and the click
\* after it was swept by the stop-on-fail loop
C32_Witness ==
    /\ ~canScreenshot
    /\ options.stopOnFail
    /\ pc = "exited"
    /\ Len(steps) = 2
    /\ Len(pageLog) = 1
    /\ pageLog[1].status = "FAIL"
    /\ StepHasStatus(1, "FAIL")
    /\ StepHasStatus(2, "SKIPPED")
    /\ ScreenshotPath(steps[1]) \notin files


(***************************************************************************)
(* C33: the base URL of a run and the initial navigation.                  *)
(***************************************************************************)
\* the baseURL of the run's environment in envs.json, NULL when there is none
EnvBaseUrl ==
    IF envsFile.state = "parsed" /\ \E e \in envsFile.envs : e.name = EnvName
    THEN (CHOOSE e \in envsFile.envs : e.name = EnvName).baseURL
    ELSE NULL

\* the step consults neither page.goto nor the URL of the page
NoUrlStep(step) ==
    /\ step.action_type # "navigation"
    /\ ~(step.action_type \in {"waitFor", "assert"} /\ StartsWith(ValueOrEmpty(step), "url:"))

\* C33: the base URL of a started run is the --base-url option if given, else
\* the baseURL of the environment if given, else the base_url of the macro,
\* else none; once past the initial navigation, page.goto was called there
\* if and only if that base URL is not empty; and a step that is not a
\* navigation never has page.goto called for it, its outcome being what it
\* is without a base URL.
C33_EffectiveBaseUrl ==
    runs # <<>> =>
        /\ baseUrl = ( IF options.baseUrl # NULL THEN options.baseUrl
                       ELSE IF EnvBaseUrl # NULL THEN EnvBaseUrl
                       ELSE \* NULL when the macro has none
                            (CHOOSE m \in macros : m.id = MacroId).base_url )
        /\ pc # "navigate" => (initialGoto # "none" <=> baseUrl \notin {NULL, ""})
        /\ \A a \in 1..Len(pageLog) :
              StepOfAttempt(a).action_type # "navigation" =>
                  pageLog[a].httpStatus = -1
        /\ (pc = "loop" /\ NoUrlStep(steps[i])) =>
              \A r \in Responses(steps[i]) :
                  executeStep(steps[i], r, baseUrl) = executeStep(steps[i], r, NULL)

\* a run whose base URL came from the environment, with a macro that has its
\* own, went through the initial navigation and attempted a click
C33_Witness ==
    /\ options.baseUrl = NULL
    /\ baseUrl = "http://dev.test"
    /\ \E m \in macros : m.base_url = "http://macro.test"
    /\ initialGoto = "done"
    /\ Len(pageLog) = 1
    /\ StepOfAttempt(1).action_type = "click"


(***************************************************************************)
(* C34: the counters of the run and the StepResults written.               *)
(***************************************************************************)
\* the step loop of the run was entered and left
LoopEnded ==
    /\ runs # <<>>
    /\ initialGoto # "failed"
    /\ pc \notin {"navigate", "loop"}

C35_MessagesByStatus ==
    ReachedFinishRun =>
        \A n \in 1..Len(stepResults) :
            LET row == stepResults[n]
            IN  /\ row.status \in {"PASS", "FAIL", "SKIPPED"}
                /\ row.status = "SKIPPED" =>
                      /\ row.errorMessage = NULL <=> StepOfRow(row).enabled = 0
                      /\ StepOfRow(row).enabled # 0 =>
                            row.errorMessage \in {StopOnFailMessage, SecretMessage}
                /\ row.status = "FAIL" => row.errorMessage \notin {NULL, ""}
                /\ row.status = "PASS" => row.errorMessage = NULL

\* a finished run with a skipped secret, a failed step and a disabled step
\* swept by the stop-on-fail loop
C35_Witness ==
    /\ ReachedFinishRun
    /\ Len(stepResults) = 3
    /\ stepResults[1].status = "SKIPPED"
    /\ stepResults[1].errorMessage = SecretMessage
    /\ stepResults[2].status = "FAIL"
    /\ stepResults[3].status = "SKIPPED"
    /\ stepResults[3].errorMessage = NULL


(***************************************************************************)
(* C36: the screenshot of a failed step and what is registered for it.     *)
(***************************************************************************)
\* C36: a screenshot artifact and the screenshot_path of a StepResult are
\* stored only for a file that page.screenshot has written.
C36_ScreenshotOnlyWhenCaptured ==
    /\ \A n \in 1..Len(artifacts) :
          artifacts[n].type = "screenshot" => artifacts[n].storageUrl \in files
    /\ \A n \in 1..Len(stepResults) :
          stepResults[n].screenshotPath # NULL => stepResults[n].screenshotPath \in files


(***************************************************************************)
(* recordMacro: the recorder.  The page script (recorderInitScript) keeps  *)
(* recordingEnabled and inputBuffer; the Node side keeps events.  A call   *)
(* of the __autotesterEvent binding is delivered at once.  Two sessions    *)
(* are recorded side by side from the same gestures; they differ only in   *)
(* the characters typed into secret fields.                                *)
(***************************************************************************)
MaxEvents == 3

Sessions == {1, 2}

\* the elements of the recorded page
UserField == [id |-> "user", testid |-> NULL, type |-> "text", autocomplete |-> NULL]
PassField == [id |-> "pass", testid |-> NULL, type |-> "password", autocomplete |-> NULL]
PinField ==
    [id |-> "pin", testid |-> NULL, type |-> "text", autocomplete |-> "current-password"]
RememberBox == [id |-> "remember", testid |-> NULL, type |-> "checkbox", autocomplete |-> NULL]
LoginButton == [id |-> "login", testid |-> "login-btn", type |-> "submit", autocomplete |-> NULL]

InputFields == {UserField, PassField, PinField}
ClickTargets == {LoginButton, RememberBox}
TypedTexts == {"a", "b"}
StartUrl == "http://app.test/"
RecorderUrls == {StartUrl, "http://app.test/home"}

RECORDED_EVENT_TYPES == {"click", "input", "change", "navigation", "waitFor", "assert"}

\* buildLocators with the values of the candidates: getDataSelector, cssPath
\* and xpath of an element that has an id and no role attribute
buildLocatorsOf(el) ==
    (IF el.testid # NULL
     THEN << [type |-> "data", value |-> "[data-testid=\"" \o el.testid \o "\"]"] >>
     ELSE << >>)
    \o << [type |-> "css", value |-> "#" \o el.id],
          [type |-> "xpath", value |-> "//*[@id=\"" \o el.id \o "\"]"] >>

\* the first locator of the given type, 0 when there is none
FindLocatorOfType(locators, type) ==
    IF \E k \in 1..Len(locators) : locators[k].type = type
    THEN CHOOSE k \in 1..Len(locators) :
            /\ locators[k].type = type
            /\ \A j \in 1..(k - 1) : locators[j].type # type
    ELSE 0

keyFromLocators(locators) ==
    IF Len(locators) = 0 THEN ""
    ELSE IF FindLocatorOfType(locators, "data") # 0
         THEN locators[FindLocatorOfType(locators, "data")].value
    ELSE IF FindLocatorOfType(locators, "css") # 0
         THEN locators[FindLocatorOfType(locators, "css")].value
    ELSE locators[1].value

\* JSON.stringify(locators[0] ?? null)
NoLocator == [type |-> "null", value |-> "null"]
FirstLocator(locators) == IF Len(locators) = 0 THEN NoLocator ELSE locators[1]

RecordedEvent(type, locators, value) ==
    [type |-> type, locators |-> locators, value |-> value]

\* a faulty variant of pushEvent: a click is compared with any earlier click
pushEventComparingAnyClick(events, payload) ==
    IF /\ payload.type = "navigation"
       /\ Len(events) > 0
       /\ events[Len(events)].type = "navigation"
       /\ events[Len(events)].value = payload.value
    THEN events
    ELSE IF /\ payload.type = "click"
       /\ \E k \in 1..Len(events) :
             /\ events[k].type = "click"
             /\ FirstLocator(events[k].locators) = FirstLocator(payload.locators)
    THEN events
    ELSE Append(events, payload)

pushEvent(events, payload) ==
    IF /\ payload.type = "navigation"
       /\ Len(events) > 0
       /\ events[Len(events)].type = "navigation"
       /\ events[Len(events)].value = payload.value
    THEN events
    ELSE IF /\ payload.type = "click"
            /\ Len(events) > 0
            /\ events[Len(events)].type = "click"
            /\ FirstLocator(events[Len(events)].locators) = FirstLocator(payload.locators)
    THEN events
    ELSE Append(events, payload)

isRecordedEventPayload(payload) == payload.type \in RECORDED_EVENT_TYPES

\* emit in the page, then the __autotesterEvent binding in Node; arrivals
\* keeps what reached pushEvent during the handler that is running
emit(r, payload) ==
    IF isRecordedEventPayload(payload)
    THEN [r EXCEPT !.events = pushEvent(@, payload),
                   !.arrivals = Append(@, payload)]
    ELSE r

send(r, type, target, value) ==
    IF ~r.recordingEnabled THEN r
    ELSE emit(r, RecordedEvent(type, buildLocatorsOf(target), value))

\* the position of the key in inputBuffer (a Map, in insertion order), 0 for none
BufferIndex(inputBuffer, key) ==
    IF \E k \in 1..Len(inputBuffer) : inputBuffer[k].key = key
    THEN CHOOSE k \in 1..Len(inputBuffer) : inputBuffer[k].key = key
    ELSE 0

RemoveAt(seq, k) == SubSeq(seq, 1, k - 1) \o SubSeq(seq, k + 1, Len(seq))

flushInput(r, key) ==
    LET k == BufferIndex(r.inputBuffer, key)
    IN  IF k = 0 THEN r
        ELSE emit([r EXCEPT !.inputBuffer = RemoveAt(@, k)],
                  RecordedEvent("input", r.inputBuffer[k].locators, r.inputBuffer[k].value))

RECURSIVE flushAllInputs(_)
flushAllInputs(r) ==
    IF Len(r.inputBuffer) = 0 THEN r
    ELSE flushAllInputs(flushInput(r, r.inputBuffer[1].key))

\* the timer of the entry is replaced; a Map keeps the place of a key it has
scheduleInput(r, target, value) ==
    LET locators == buildLocatorsOf(target)
        key == keyFromLocators(locators)
        k == BufferIndex(r.inputBuffer, key)
        entry == [key |-> key, value |-> value, locators |-> locators]
    IN  IF k = 0
        THEN [r EXCEPT !.inputBuffer = Append(@, entry)]
        ELSE [r EXCEPT !.inputBuffer[k] = entry]

\* a faulty variant of isSecret: the autocomplete attribute is not looked at
isSecretByTypeOnly(target) == target.type = "password"

isSecret(target) ==
    target.type = "password" \/ target.autocomplete = "current-password"

\* ---- the listeners of the page script ----
onClick(r, target) ==
    IF ~r.recordingEnabled THEN r ELSE send(r, "click", target, NULL)

\* a field for credentials: a password input, or one that the browser fills
\* with the current password
CredentialField(target) ==
    target.type = "password" \/ target.autocomplete = "current-password"

\* the page after the keystrokes: typedSecret is target.value of the
\* credential field typed into last
Typed(r, target, typed) ==
    IF CredentialField(target) THEN [r EXCEPT !.typedSecret = typed] ELSE r

onInput(r, target, typed) ==
    IF ~r.recordingEnabled THEN Typed(r, target, typed)
    ELSE scheduleInput(Typed(r, target, typed), target,
                       IF isSecret(target) THEN SecretSentinel ELSE typed)

onBlur(r, target) == flushInput(r, keyFromLocators(buildLocatorsOf(target)))

onChange(r, target, checked) ==
    IF ~r.recordingEnabled THEN r
    ELSE IF target.type \in {"checkbox", "radio"}
         THEN send(r, "change", target, IF checked THEN "checked" ELSE "unchecked")
    ELSE r

emitNavigation(r, href) ==
    IF ~r.recordingEnabled THEN r
    ELSE emit(flushAllInputs(r), RecordedEvent("navigation", << >>, href))

\* __autotesterCommand
toggleRecording(r) == [r EXCEPT !.recordingEnabled = ~@]

assertUrl(r, href) ==
    IF r.recordingEnabled
    THEN emit(r, RecordedEvent("assert", << >>, "url:" \o Pathname(href)))
    ELSE r

\* ---- the Node side ----
\* page.on("framenavigated") for the main frame; a new document runs the
\* init script again, a navigation within the document does not
framenavigated(r, url, newDocument) ==
    LET pushed ==
            [r EXCEPT !.events = pushEvent(@, RecordedEvent("navigation", << >>, url)),
                      !.arrivals = Append(@, RecordedEvent("navigation", << >>, url))]
    IN  IF newDocument
        THEN [pushed EXCEPT !.inputBuffer = << >>, !.recordingEnabled = TRUE]
        ELSE pushed

\* events.pop()
undo(r) ==
    [r EXCEPT !.events = IF Len(@) = 0 THEN @ ELSE SubSeq(@, 1, Len(@) - 1)]

\* events.length = 0
clear(r) == [r EXCEPT !.events = << >>]

stopRecording(r) == [r EXCEPT !.stopRequested = TRUE]

\* events.map((e, idx) => ...): the step recorded for the event at idx + 1
StepOfEvent(e, orderIndex) ==
    LET toggled == e.type = "change" /\ e.value \in {"checked", "unchecked"}
    IN  [orderIndex |-> orderIndex,
         actionType |->
            IF e.type \in {"click", "navigation", "waitFor", "assert"} THEN e.type
            ELSE IF e.type = "input" THEN "type"
            ELSE IF e.type = "change"
                 THEN (IF e.value = "checked" THEN "check"
                       ELSE IF e.value = "unchecked" THEN "uncheck"
                       ELSE "select")
            ELSE "click",
         locators |-> e.locators,
         value |-> IF toggled THEN NULL ELSE e.value]

\* createMacro and addSteps once the recording has stopped
saveRecording(r) ==
    [r EXCEPT !.saved = TRUE,
              !.steps = [k \in 1..Len(r.events) |-> StepOfEvent(r.events[k], k)]]

\* the session after page.goto(url): framenavigated, then the explicit pushEvent
StartedSession ==
    LET navigation == RecordedEvent("navigation", << >>, StartUrl)
    IN  [events |-> pushEvent(pushEvent(<< >>, navigation), navigation),
         arrivals |-> << navigation, navigation >>,
         inputBuffer |-> << >>,
         typedSecret |-> "",
         recordingEnabled |-> TRUE,
         stopRequested |-> FALSE,
         saved |-> FALSE,
         steps |-> << >>]

\* the rest of the process while a recording or the factory is looked at
NoReplayGoingOn ==
    /\ NothingReplayed
    /\ envsFile = NoEnvsFile
    /\ dbUp = TRUE
    /\ macros = {}
    /\ steps = << >>
    /\ canScreenshot = TRUE
    /\ pc = "start"
    /\ i = 1
    /\ baseUrl = NULL
    /\ initialGoto = "none"
    /\ pageLog = << >>
    /\ rejection = NULL
    /\ exitCode = 0
    /\ exitStatus = -1
    /\ cliOutput = NoOutput

InitRecorder ==
    /\ sessions = [s \in Sessions |-> StartedSession]
    /\ NoReplayGoingOn
    /\ NoFactoryCalls

\* the session as a handler finds it
Session(s) == [sessions[s] EXCEPT !.arrivals = << >>]

\* the gesture is applied in both sessions
Recorded(after) ==
    /\ sessions' = after
    /\ UNCHANGED << factoryVars, cliOutput, options, envsFile, dbUp, macros, steps, runs,
                    stepResults, artifacts, files, canScreenshot, report, pc, i, failed,
                    runSummary, baseUrl, browser, tracing, initialGoto, pageLog,
                    rejection, exitCode, exitStatus >>

Recording == \A s \in Sessions : ~sessions[s].stopRequested

\* there is room for one more event within the bound
Room ==
    \A s \in Sessions :
        Len(sessions[s].events) + Len(sessions[s].inputBuffer) < MaxEvents

ClickGesture ==
    /\ Recording /\ Room
    /\ \E target \in ClickTargets :
          Recorded([s \in Sessions |-> onClick(Session(s), target)])

\* the same field in both sessions; the characters differ in a credential
\* field and nowhere else
InputGesture ==
    /\ Recording /\ Room
    /\ \E target \in InputFields, typed \in [Sessions -> TypedTexts] :
          /\ typed[1] # typed[2] <=> CredentialField(target)
          /\ Recorded([s \in Sessions |-> onInput(Session(s), target, typed[s])])

\* the 250 ms timer of a buffered input fires
InputTimer ==
    /\ Recording
    /\ \E k \in 1..Len(sessions[1].inputBuffer) :
          Recorded([s \in Sessions |->
                      flushInput(Session(s), sessions[1].inputBuffer[k].key)])

BlurGesture ==
    /\ Recording
    /\ \E target \in InputFields :
          /\ BufferIndex(sessions[1].inputBuffer, keyFromLocators(buildLocatorsOf(target))) # 0
          /\ Recorded([s \in Sessions |-> onBlur(Session(s), target)])

ChangeGesture ==
    /\ Recording /\ Room
    /\ \E checked \in BOOLEAN :
          Recorded([s \in Sessions |-> onChange(Session(s), RememberBox, checked)])

\* history.pushState: the page script emits, and the frame reports the
\* navigation within the document
PushStateNavigation ==
    /\ Recording /\ Room
    /\ \E href \in RecorderUrls :
          Recorded([s \in Sessions |->
                      framenavigated(emitNavigation(Session(s), href), href, FALSE)])

\* a link or a reload: a new document
DocumentNavigation ==
    /\ Recording /\ Room
    /\ \E url \in RecorderUrls :
          Recorded([s \in Sessions |-> framenavigated(Session(s), url, TRUE)])

AssertUrlCommand ==
    /\ Recording /\ Room
    /\ \E href \in RecorderUrls :
          Recorded([s \in Sessions |-> assertUrl(Session(s), href)])

ToggleRecordingCommand ==
    /\ Recording
    /\ Recorded([s \in Sessions |-> toggleRecording(Session(s))])

UndoCommand ==
    /\ Recording
    /\ Recorded([s \in Sessions |-> undo(Session(s))])

ClearCommand ==
    /\ Recording
    /\ Recorded([s \in Sessions |-> clear(Session(s))])

\* Ctrl+Shift+S in the page
StopHotkey ==
    /\ Recording
    /\ Recorded([s \in Sessions |-> stopRecording(flushAllInputs(Session(s)))])

\* the stop button of the control panel
StopCommand ==
    /\ Recording
    /\ Recorded([s \in Sessions |-> stopRecording(Session(s))])

SaveRecording ==
    /\ \A s \in Sessions : sessions[s].stopRequested /\ ~sessions[s].saved
    /\ \A s \in Sessions : Len(Session(s).events) > 0
    /\ Recorded([s \in Sessions |-> saveRecording(Session(s))])

NextRecorder ==
    \/ ClickGesture
    \/ InputGesture
    \/ InputTimer
    \/ BlurGesture
    \/ ChangeGesture
    \/ PushStateNavigation
    \/ DocumentNavigation
    \/ AssertUrlCommand
    \/ ToggleRecordingCommand
    \/ UndoCommand
    \/ ClearCommand
    \/ StopHotkey
    \/ StopCommand
    \/ SaveRecording

SpecRecorder == InitRecorder /\ [][NextRecorder]_vars


(***************************************************************************)
(* C37: the recorded event list.                                           *)
(***************************************************************************)
\* two events that the recorder takes for a repetition when they are adjacent
Repeats(a, b) ==
    \/ a.type = "navigation" /\ b.type = "navigation" /\ a.value = b.value
    \/ a.type = "click" /\ b.type = "click"
          /\ FirstLocator(a.locators) = FirstLocator(b.locators)

\* the list after the arrival of the payloads, one after the other: a payload
\* that repeats the event before it is dropped, every other one is appended
RECURSIVE AfterArrivals(_, _)
AfterArrivals(events, arrivals) ==
    IF arrivals = << >> THEN events
    ELSE AfterArrivals(
            IF Len(events) > 0 /\ Repeats(events[Len(events)], Head(arrivals))
            THEN events ELSE Append(events, Head(arrivals)),
            Tail(arrivals))

\* the action_type a recorded event is stored with
StoredActionType(e) ==
    CASE e.type = "input" -> "type"
      [] e.type = "change" /\ e.value = "checked" -> "check"
      [] e.type = "change" /\ e.value = "unchecked" -> "uncheck"
      [] e.type = "change" -> "select"
      [] OTHER -> e.type

\* C37: the recorded event list never holds two adjacent navigation events
\* with the same URL nor two adjacent click events with the same first
\* locator; an arriving event that is not such a repetition is appended at
\* the end, in arrival order, and the list changes otherwise only by an undo
\* or a clear command, which cut it from the end; the saved steps are the
\* events in that order with order_index 1..n.
C37_RecorderDeduplication ==
    /\ [](\A s \in Sessions :
            LET events == sessions[s].events
            IN  /\ \A k \in 1..(Len(events) - 1) : ~Repeats(events[k], events[k + 1])
                /\ sessions[s].saved =>
                      /\ Len(sessions[s].steps) = Len(events)
                      /\ \A k \in 1..Len(events) :
                            /\ sessions[s].steps[k].orderIndex = k
                            /\ sessions[s].steps[k].actionType = StoredActionType(events[k])
                            /\ sessions[s].steps[k].locators = events[k].locators)
    /\ [][\A s \in Sessions :
            IF sessions'[s].arrivals # << >>
            THEN sessions'[s].events =
                    AfterArrivals(sessions[s].events, sessions'[s].arrivals)
            ELSE \E n \in 0..Len(sessions[s].events) :
                    sessions'[s].events = SubSeq(sessions[s].events, 1, n)]_vars

\* a click, a navigation and the same click again were recorded and saved
C37_Witness ==
    /\ sessions # << >>
    /\ sessions[1].saved
    /\ Len(sessions[1].steps) = 3
    /\ sessions[1].events[1].type = "click"
    /\ sessions[1].events[2].type = "navigation"
    /\ sessions[1].events[3] = sessions[1].events[1]
    /\ sessions[1].steps[3].orderIndex = 3


(***************************************************************************)
(* C38: what is recorded of the input into a credential field.             *)
(***************************************************************************)
\* the event, buffer entry or step was made from an element with these locators
RecordedFrom(item, target) == item.locators = buildLocatorsOf(target)

\* C38: whatever is typed into a password field or a field with
\* autocomplete current-password, the value buffered, recorded and saved for
\* it is the sentinel "__SECRET__"; and two sessions that differ only in the
\* characters typed into such fields have the same events and the same
\* saved steps.
C38_CredentialNonPersistence ==
    /\ \A s \in Sessions, target \in {f \in InputFields : CredentialField(f)} :
          /\ \A k \in 1..Len(sessions[s].inputBuffer) :
                RecordedFrom(sessions[s].inputBuffer[k], target) =>
                   sessions[s].inputBuffer[k].value = "__SECRET__"
          /\ \A k \in 1..Len(sessions[s].events) :
                (sessions[s].events[k].type = "input"
                    /\ RecordedFrom(sessions[s].events[k], target)) =>
                   sessions[s].events[k].value = "__SECRET__"
          /\ \A k \in 1..Len(sessions[s].steps) :
                (sessions[s].steps[k].actionType = "type"
                    /\ RecordedFrom(sessions[s].steps[k], target)) =>
                   sessions[s].steps[k].value = "__SECRET__"
    /\ \A s, t \in Sessions :
          /\ sessions[s].events = sessions[t].events
          /\ sessions[s].inputBuffer = sessions[t].inputBuffer
          /\ sessions[s].steps = sessions[t].steps

\* two saved recordings of a user name, and of a PIN typed differently in
\* the two sessions into a text field with autocomplete current-password
C38_Witness ==
    /\ sessions # << >>
    /\ \A s \in Sessions : sessions[s].saved
    /\ sessions[1].typedSecret = "a"
    /\ sessions[2].typedSecret = "b"
    /\ Len(sessions[1].steps) = 3
    /\ sessions[1].steps[2].actionType = "type"
    /\ sessions[1].steps[2].value = "b"
    /\ RecordedFrom(sessions[1].steps[2], UserField)
    /\ sessions[1].steps[3].actionType = "type"
    /\ RecordedFrom(sessions[1].steps[3], PinField)


(***************************************************************************)
(* C39: the recorded event list while recording is paused.                 *)
(***************************************************************************)
\* C39: while recording is paused (recordingEnabled is false before and
\* after the step) no event is appended to the recorded event list.
C39_NothingRecordedWhilePaused ==
    [][\A s \in Sessions :
          (~sessions[s].recordingEnabled /\ ~sessions'[s].recordingEnabled) =>
              Len(sessions'[s].events) <= Len(sessions[s].events)]_vars


(***************************************************************************)
(* The repository factory (createRepository, pingDatabase) under           *)
(* concurrent calls.  A call runs up to its next await in one step; the    *)
(* answers of the Postgres pool arrive in any order between the calls.     *)
(***************************************************************************)
MaxCalls == 2

Callers == 1..MaxCalls

\* the tables made by the statements of PostgresRepository.init, in order
schemaStatements == << "macros", "macro_steps", "runs", "run_step_results", "artifacts" >>

getDbProvider == IF provider = "postgres" THEN "postgres" ELSE "sqlite"

NotCalled == [op |-> "none", at |-> "idle", stmt |-> 0, repo |-> "none", ready |-> FALSE]

InitFactory ==
    /\ provider \in {NULL, "sqlite", "postgres"}
    /\ cachedPostgres = NULL
    /\ initialized = FALSE
    /\ statementsRun = [k \in 1..Len(schemaStatements) |-> 0]
    /\ calls = [c \in Callers |-> NotCalled]
    /\ NoRecording
    /\ NoReplayGoingOn

FactoryStep ==
    UNCHANGED << recorderVars, cliOutput, options, envsFile, dbUp, macros, steps, runs,
                 stepResults, artifacts, files, canScreenshot, report, pc, i, failed,
                 runSummary, baseUrl, browser, tracing, initialGoto, pageLog,
                 rejection, exitCode, exitStatus >>

\* createRepository has its repository: it returns it, and pingDatabase
\* goes on to repo.ping()
GotRepository(c, op, repo, ready) ==
    [calls EXCEPT ![c] = [op |-> op, at |-> IF op = "pingDatabase" /\ repo = "postgres"
                                           THEN "ping" ELSE "returned",
                          stmt |-> 0, repo |-> repo, ready |-> ready]]

\* createRepository with the SQLite provider: initDb makes the schema at once
CallSqlite(c, op) ==
    /\ calls[c].at = "idle"
    /\ getDbProvider = "sqlite"
    /\ calls' = GotRepository(c, op, "sqlite", TRUE)
    /\ UNCHANGED << provider, cachedPostgres, initialized, statementsRun >>
    /\ FactoryStep

\* createRepository with no cached repository: one is made and cached, and
\* init sends its first statement
CallFirst(c, op) ==
    /\ calls[c].at = "idle"
    /\ getDbProvider = "postgres"
    /\ cachedPostgres = NULL
    /\ cachedPostgres' = "PostgresRepository"
    /\ statementsRun' = [statementsRun EXCEPT ![1] = @ + 1]
    /\ calls' = [calls EXCEPT ![c] = [op |-> op, at |-> "init", stmt |-> 1,
                                      repo |-> "none", ready |-> FALSE]]
    /\ UNCHANGED << provider, initialized >>
    /\ FactoryStep

\* createRepository with a cached repository: it is returned as it is
CallCached(c, op) ==
    /\ calls[c].at = "idle"
    /\ getDbProvider = "postgres"
    /\ cachedPostgres # NULL
    /\ calls' = GotRepository(c, op, "postgres", initialized)
    /\ UNCHANGED << provider, cachedPostgres, initialized, statementsRun >>
    /\ FactoryStep

\* init: the pool answered a statement; the next one is sent
InitNextStatement(c) ==
    /\ calls[c].at = "init"
    /\ calls[c].stmt < Len(schemaStatements)
    /\ statementsRun' = [statementsRun EXCEPT ![calls[c].stmt + 1] = @ + 1]
    /\ calls' = [calls EXCEPT ![c].stmt = @ + 1]
    /\ UNCHANGED << provider, cachedPostgres, initialized >>
    /\ FactoryStep

\* init: the pool answered the last statement
InitCompleted(c) ==
    /\ calls[c].at = "init"
    /\ calls[c].stmt = Len(schemaStatements)
    /\ initialized' = TRUE
    /\ calls' = GotRepository(c, calls[c].op, "postgres", TRUE)
    /\ UNCHANGED << provider, cachedPostgres, statementsRun >>
    /\ FactoryStep

\* init: pool.query rejects; so do init and createRepository
InitRejected(c) ==
    /\ calls[c].at = "init"
    /\ calls' = [calls EXCEPT ![c].at = "rejected"]
    /\ UNCHANGED << provider, cachedPostgres, initialized, statementsRun >>
    /\ FactoryStep

\* pingDatabase: SELECT 1 was answered
PingAnswered(c) ==
    /\ calls[c].at = "ping"
    /\ calls' = [calls EXCEPT ![c].at = "returned"]
    /\ UNCHANGED << provider, cachedPostgres, initialized, statementsRun >>
    /\ FactoryStep

NextFactory ==
    \/ \E c \in Callers, op \in {"createRepository", "pingDatabase"} :
          \/ CallSqlite(c, op)
          \/ CallFirst(c, op)
          \/ CallCached(c, op)
    \/ \E c \in Callers :
          \/ InitNextStatement(c)
          \/ InitCompleted(c)
          \/ InitRejected(c)
          \/ PingAnswered(c)

SpecFactory == InitFactory /\ [][NextFactory]_vars

(***************************************************************************)
(* C40: the repository a Postgres createRepository resolves with.          *)
(***************************************************************************)
\* C40: with the Postgres provider, a repository that createRepository has
\* handed out (to its caller, or to pingDatabase for its ping) has had its
\* init completed; and no schema statement is run more than once.
C40_InitBeforeUse ==
    /\ \A c \in DOMAIN calls :
          (calls[c].repo = "postgres" /\ calls[c].at \in {"ping", "returned"}) =>
              calls[c].ready
    /\ \A k \in DOMAIN statementsRun : statementsRun[k] <= 1

=============================================================================
